---- MODULE Spec2Model ----
(***************************************************************************)
(* Mount lifecycle of atom-core: render() materializes a tree of children  *)
(* with createDOMNode, drives each class component through                 *)
(* constructor -> beforeMount -> render -> didMount, attaches the instance  *)
(* to the produced DOM node, appends the result to the container and       *)
(* schedules processAfterMountRecursively, which walks the produced DOM    *)
(* and runs afterMount on the attached instances.                          *)
(*                                                                         *)
(* The JavaScript call stack is the variable stack (one frame per active   *)
(* call of render / createDOMNode), the timer queue is timers, and each    *)
(* started traversal is an async task in travs with its own frame stack.   *)
(***************************************************************************)
EXTENDS Integers, Sequences, FiniteSets, TLC

-----------------------------------------------------------------------------
(* Children values (src/utils/types/Children): what createDOMNode accepts.  *)

\* null takes the first branch of createDOMNode
Null == [k |-> "null"]
\* undefined: same branch of createDOMNode, but props.children === undefined
\* is skipped by the intrinsic branch
Undefined == [k |-> "undefined"]
\* true and false take the first branch too; collectChildren tells them apart
True == [k |-> "true"]
False == [k |-> "false"]
Text(s) == [k |-> "text", v |-> s]
\* a number primitive
Number(n) == [k |-> "number", n |-> n]
Arr(items) == [k |-> "array", items |-> items]

\* Property names are sequences of characters, so that startsWith, slice and
\* toLowerCase are computed on them.
CHILDREN == <<"c", "h", "i", "l", "d", "r", "e", "n">>
KEY == <<"k", "e", "y">>
REF == <<"r", "e", "f">>
ID == <<"i", "d">>
CLASS == <<"c", "l", "a", "s", "s">>
ONCE == <<"o", "n", "c", "e">>
MAX_LENGTH == <<"m", "a", "x", "L", "e", "n", "g", "t", "h">>
DISABLED == <<"d", "i", "s", "a", "b", "l", "e", "d">>
ON_CLICK == <<"o", "n", "C", "l", "i", "c", "k">>
ON_MOUSE_OVER == <<"o", "n", "M", "o", "u", "s", "e", "O", "v", "e", "r">>
ON_INPUT == <<"o", "n", "i", "n", "p", "u", "t">>
DATA_TESTID ==
  <<"d", "a", "t", "a", "-", "t", "e", "s", "t", "i", "d">>

\* one [key, value] pair of Object.entries(props)
Entry(name, value) == [key |-> name, value |-> value]
\* props[name]; undefined is what stands for a missing entry
RECURSIVE Get(_, _, _)
Get(props, name, undefined) ==
  IF props = <<>> THEN undefined
  ELSE IF Head(props).key = name THEN Head(props).value
  ELSE Get(Tail(props), name, undefined)
\* the entries of props except those named in names
Without(props, names) == SelectSeq(props, LAMBDA e : e.key \notin names)

\* the type of a VNode: a tag name, or the function Fragment of the JSX
\* runtime (an arrow function: it has no prototype)
Tag(name) == [typeof |-> "string", name |-> name]
Fragment == [typeof |-> "function", name |-> "Fragment"]

\* { type, props }: isIntrinsicVNode holds when the type is a string; a
\* function without a prototype object is no class component
VNode(type, props) ==
  [k |-> IF type.typeof = "string" THEN "intrinsic" ELSE "function",
   type |-> type.name, props |-> props]
\* VNode whose type is a string and whose only prop is children
El(tag, kids) == VNode(Tag(tag), <<Entry(CHILDREN, kids)>>)
\* props values: a string, a number, undefined (also: missing), a boolean,
\* null, an object, a function (named by its source text; throws tells
\* whether calling it throws)
Str(s) == [t |-> "string", v |-> s]
Num(n) == [t |-> "number", n |-> n]
Undef == [t |-> "undefined", v |-> ""]
Bool(b) == [t |-> "boolean", b |-> b]
NullProp == [t |-> "null"]
RefObject == [t |-> "object"]
Fn(src, throws) == [t |-> "function", src |-> src, throws |-> throws]
\* the props object {}
NoProps == [name \in {} |-> Undef]
\* VNode whose type is a class with render() on its prototype
CompP(cls, props) == [k |-> "class", type |-> cls, props |-> props]
Comp(cls) == CompP(cls, NoProps)
\* any other object shape
Obj == [k |-> "object"]

-----------------------------------------------------------------------------
(* The component classes of the checked trees: what render() returns.       *)

Classes ==
  {"Leaf", "Parent", "Wrapper", "List", "Async", "WithDefaultsAndTypes"}

\* the classes whose beforeMount and didMount may return a promise
AsyncClasses == {"Async"}

\* AtomComponent subclasses that define the three hooks, with beforeMount,
\* render() and didMount bodies that do nothing but return
PlainClasses == {"Item", "Holder"}

RenderOf(cls) ==
  CASE cls = "Leaf"    -> El("span", Text("leaf"))
    [] cls = "Parent"  -> El("section", Arr(<<Text("p"), Comp("Leaf")>>))
    [] cls = "Wrapper" -> Comp("Leaf")
    [] cls = "List"    -> Arr(<<El("li", Undefined), Comp("Leaf")>>)
    [] cls = "Async"   -> El("span", Text("async"))
    [] cls = "WithDefaultsAndTypes" -> El("div", Undefined)
    [] cls = "Item"    -> El("li", Text("item"))
    [] cls = "Holder"  -> Comp("Item")
    \* the test double of the lifecycle tests
    [] cls = "Mock"    -> El("div", Arr(<<Text("Test")>>))

\* The props given to the class with defaultProps and propTypes: none, a
\* valid or invalid label, a count without label, an explicit undefined, two
\* invalid props, an invalid id.
GivenProps ==
  { NoProps,
    [label |-> Str("x")],
    [label |-> Num(42)],
    [label |-> Undef],
    [count |-> Num(5)],
    [label |-> Str("x"), count |-> Str("many")],
    [label |-> Num(42), count |-> Str("many")],
    [label |-> Str("x"), id |-> Num(7)] }

\* The trees handed to render(): a component nested inside elements next to
\* a sibling component, a component rendering a component, a component
\* rendering an array (as root and inside an element), an array root, and
\* a parent whose output contains a child, a tree without components, and a
\* component with asynchronous hooks next to a sibling, and a component
\* with defaultProps and propTypes for each of the given props.
Roots ==
  { El("div", Arr(<<Comp("Parent"), Comp("Leaf")>>)),
    Comp("Wrapper"),
    Comp("List"),
    El("div", Comp("List")),
    Arr(<<Comp("Leaf"), Null, Comp("Leaf")>>),
    Comp("Parent"),
    El("p", Arr(<<Text("a"), Obj, Undefined>>)),
    El("div", Arr(<<Comp("Async"), Comp("Leaf")>>)) }
    \cup {CompP("WithDefaultsAndTypes", props) : props \in GivenProps}

Hooks == {"beforeMount", "didMount", "afterMount"}

-----------------------------------------------------------------------------
VARIABLES
  root,     \* the children value given to render()
  pc,       \* position of the caller of render(): "start", "rendering", "returned"
  dom,      \* the DOM nodes, by id; dom[Container] is the container
  inst,     \* the component instances, by id
  stack,    \* the synchronous call stack (last element = running frame)
  timers,   \* setTimeout callbacks not yet run (the node each will traverse)
  travs,    \* the started processAfterMountRecursively tasks
  trace,    \* observed events, in order (hook calls, insertion, console.error)
  faults    \* number of hooks that threw or rejected so far

vars == <<root, pc, dom, inst, stack, timers, travs, trace, faults>>

\* at most this many hooks of one run throw or reject
MaxFaults == 1

Container == 1

-----------------------------------------------------------------------------
(* DOM nodes.  A node is a record; dom is the sequence of all nodes ever    *)
(* created, a node's id is its index.                                       *)

NewNode(kind, name) ==
  [kind |-> kind, name |-> name, childNodes |-> <<>>, parentNode |-> 0,
   attributes |-> <<>>, listeners |-> <<>>, __atomComponent |-> 0]

\* document.createTextNode(String(content))
createTextNode(d, content) == Append(d, NewNode("text", content))
\* document.createElement(tagName)
createElement(d, tagName) == Append(d, NewNode("element", tagName))
\* document.createDocumentFragment()
createDocumentFragment(d) == Append(d, NewNode("fragment", ""))

Range(s) == {s[i] : i \in DOMAIN s}

\* parent.appendChild(child): a document fragment hands over its children
\* and is left empty; any other node is moved from its previous parent.
appendChild(d, p, c) ==
  LET moved == IF d[c].kind = "fragment" THEN d[c].childNodes ELSE <<c>>
      d1 == [n \in DOMAIN d |->
               [d[n] EXCEPT
                  !.childNodes = SelectSeq(@, LAMBDA x : x \notin Range(moved)),
                  !.parentNode = IF n \in Range(moved) THEN p ELSE @]]
  IN [d1 EXCEPT ![p].childNodes = @ \o moved]

\* mutant: the previous content is kept
clearContainerKeepsContent(d) == d

\* container.innerHTML = ''
clearContainer(d) ==
  [n \in DOMAIN d |->
     IF n = Container THEN [d[n] EXCEPT !.childNodes = <<>>]
     ELSE IF d[n].parentNode = Container THEN [d[n] EXCEPT !.parentNode = 0]
     ELSE d[n]]

\* (domNode as ComponentAttachedNode).__atomComponent = component
attachComponentToNode(d, domNode, component) ==
  [d EXCEPT ![domNode].__atomComponent = component]

\* the lower-case letter of each upper-case letter
LowerCase ==
  [A |-> "a", B |-> "b", C |-> "c", D |-> "d", E |-> "e", F |-> "f",
   G |-> "g", H |-> "h", I |-> "i", J |-> "j", K |-> "k", L |-> "l",
   M |-> "m", N |-> "n", O |-> "o", P |-> "p", Q |-> "q", R |-> "r",
   S |-> "s", T |-> "t", U |-> "u", V |-> "v", W |-> "w", X |-> "x",
   Y |-> "y", Z |-> "z"]
\* String.prototype.toLowerCase, startsWith and slice(start)
toLowerCase(str) ==
  [i \in DOMAIN str |->
     IF str[i] \in DOMAIN LowerCase THEN LowerCase[str[i]] ELSE str[i]]
startsWith(str, prefix) ==
  Len(str) >= Len(prefix) /\ SubSeq(str, 1, Len(prefix)) = prefix
slice(str, start) == SubSeq(str, start + 1, Len(str))

\* String(value)
String(value) ==
  CASE value.t = "string" -> value.v
    [] value.t = "number" -> ToString(value.n)
    [] value.t = "boolean" -> IF value.b THEN "true" ELSE "false"
    [] value.t = "undefined" -> "undefined"
    [] value.t = "null" -> "null"
    [] value.t = "object" -> "[object Object]"
    [] value.t = "function" -> value.src

\* element.setAttribute(name, value) on an HTML element: the name is
\* lower-cased, an attribute of that name is overwritten in place
setAttribute(attributes, name, value) ==
  LET qualifiedName == toLowerCase(name)
  IN IF \E i \in DOMAIN attributes : attributes[i].name = qualifiedName
     THEN [i \in DOMAIN attributes |->
             IF attributes[i].name = qualifiedName
             THEN [attributes[i] EXCEPT !.value = value] ELSE attributes[i]]
     ELSE Append(attributes, [name |-> qualifiedName, value |-> value])

\* element.addEventListener(type, listener): the same listener is not
\* registered twice for one type
addEventListener(listeners, type, listener) ==
  IF \E i \in DOMAIN listeners :
       listeners[i] = [type |-> type, listener |-> listener]
  THEN listeners
  ELSE Append(listeners, [type |-> type, listener |-> listener])

\* delete componentNode.__atomComponent
deleteAttachment(d, node) == [d EXCEPT ![node].__atomComponent = 0]

-----------------------------------------------------------------------------
(* Component instances (AtomComponent and its subclasses).                  *)

StateKeys == {"v", "w"}
EmptyState == [key \in StateKeys |-> 0]     \* {} : no key set

\* this.state = {...} in the subclass constructor, after super(props)
ConstructorState(cls) ==
  IF cls = "Leaf" THEN [v |-> 1, w |-> 2] ELSE EmptyState

\* What a class defines: the hooks it implements, and whether it extends
\* AtomComponent (guards = TRUE) or only has a render() method.
Profiles ==
  {[def |-> d, guards |-> TRUE] :
     d \in {Hooks, {}, {"beforeMount", "afterMount"}, {"didMount"}}}
    \cup {[def |-> Hooks, guards |-> FALSE]}

\* what a class of the checked trees may define
ProfilesOf(cls) ==
  IF cls \in PlainClasses THEN {[def |-> Hooks, guards |-> TRUE]}
  ELSE Profiles

\* static defaultProps of a class (NoProps: the class has none)
DefaultProps(cls) ==
  IF cls = "WithDefaultsAndTypes" THEN [label |-> Str("default")] ELSE NoProps

\* static propTypes of a class: the validated prop names in for...in order
PropTypes(cls) ==
  IF cls = "WithDefaultsAndTypes" THEN <<"label", "count", "id">> ELSE <<>>

\* props[propName], undefined when the prop is missing
PropValue(props, propName) ==
  IF propName \in DOMAIN props THEN props[propName] ELSE Undef

\* what the validator of a prop does with a value: returns null, returns
\* an Error, or throws one
validator(propName, value) ==
  CASE propName = "label" ->
         IF value.t # "string"
         THEN [kind |-> "error", message |-> "label must be string"]
         ELSE [kind |-> "null", message |-> ""]
    [] propName = "count" ->
         IF value.t \notin {"undefined", "number"}
         THEN [kind |-> "error", message |-> "count must be a number"]
         ELSE [kind |-> "null", message |-> ""]
    [] propName = "id" ->
         IF value.t \notin {"undefined", "string"}
         THEN [kind |-> "throw", message |-> "id must be a string"]
         ELSE [kind |-> "null", message |-> ""]

\* _mergeDefaultProps: {...defaultProps, ...props}, props itself when the
\* class has no defaultProps
_mergeDefaultProps(props, defaultProps) ==
  IF DOMAIN defaultProps = {} THEN props
  ELSE [name \in DOMAIN defaultProps \cup DOMAIN props |->
          IF name \in DOMAIN props THEN props[name] ELSE defaultProps[name]]

RECURSIVE _validateProps(_, _, _)

\* mutant: only the first validator is run
_validatePropsFirstOnly(props, propTypes, componentName) ==
  IF propTypes = <<>> \/ validator(Head(propTypes),
                                  PropValue(props, Head(propTypes))).kind = "null"
  THEN <<>>
  ELSE <<"Prop validation failed for", Head(propTypes), "in", componentName>>

\* _validateProps: the message of the error it throws, as the sequence of
\* its parts (<<>>: every validator returned null).  An Error a validator
\* returns is thrown as "Invalid prop `p` supplied to `C`: ..." inside the
\* try block, so it is wrapped like an error the validator threw itself.
_validateProps(props, propTypes, componentName) ==
  IF propTypes = <<>> THEN <<>>
  ELSE LET propName == Head(propTypes)
           error == validator(propName, PropValue(props, propName))
       IN IF error.kind = "null"
          THEN _validateProps(props, Tail(propTypes), componentName)
          ELSE <<"Prop validation failed for", propName, "in", componentName>>
                 \o (IF error.kind = "error"
                     THEN <<"Invalid prop", propName, "supplied to",
                            componentName>>
                     ELSE <<>>)
                 \o <<error.message>>

\* the instance after the field initializers, before the constructor body
FieldInitializers(cls, profile) ==
  [cls |-> cls, def |-> profile.def, guards |-> profile.guards,
   props |-> NoProps, state |-> EmptyState, thrown |-> <<>>,
   \* whether AtomComponent._baseConstructorCalled, the WeakSet of the
   \* class, holds this instance
   _baseConstructorCalled |-> FALSE,
   _constructorCalled |-> FALSE,
   _isMounting |-> FALSE, _isMounted |-> FALSE,
   _beforeMountCalled |-> FALSE, _didMountCalled |-> FALSE,
   _afterMountCalled |-> FALSE,
   \* the promises returned by beforeMount and didMount: "none", "pending",
   \* "resolved" or "rejected"
   beforeMountResult |-> "none", didMountResult |-> "none"]

\* what the base constructor throws for these props (<<>>: nothing); a
\* class that does not extend AtomComponent does not run it
ConstructorError(cls, profile, props) ==
  IF profile.guards
  THEN _validateProps(_mergeDefaultProps(props, DefaultProps(cls)),
                      PropTypes(cls), cls)
  ELSE <<>>

\* new ComponentClass(props): the state of the instance when the
\* constructor returns
ComponentClass(cls, profile, props) ==
  [FieldInitializers(cls, profile) EXCEPT
     !.props = IF profile.guards
               THEN _mergeDefaultProps(props, DefaultProps(cls))
               ELSE props,
     !.state = ConstructorState(cls),
     !._baseConstructorCalled = profile.guards,
     !._constructorCalled = profile.guards]

\* new ComponentClass(props) when the base constructor throws: the object
\* is never handed to anyone, thrown is the message of the error
FailedConstruction(cls, profile, props) ==
  [FieldInitializers(cls, profile) EXCEPT
     !._baseConstructorCalled = profile.guards,
     !.thrown = ConstructorError(cls, profile, props)]

MultipleTimesError ==
  "AtomComponent constructor called multiple times for the same instance. This should never happen."

\* mutant: the set of constructed instances is not consulted
hasNot(_baseConstructorCalled, c) == FALSE

\* AtomComponent._baseConstructorCalled.has(this)
has(_baseConstructorCalled, c) == c[_baseConstructorCalled]

\* The body of the base constructor run on the instance c: it throws for an
\* instance of the set; otherwise it adds the instance to the set, merges
\* and validates the props, and then sets props, state = {} and
\* _constructorCalled.
AtomComponent(c, props) ==
  IF has("_baseConstructorCalled", c)
  THEN [c EXCEPT !.thrown = <<MultipleTimesError>>]
  ELSE IF ConstructorError(c.cls, c, props) # <<>>
  THEN [c EXCEPT !._baseConstructorCalled = TRUE,
                 !.thrown = ConstructorError(c.cls, c, props)]
  ELSE [c EXCEPT !._baseConstructorCalled = TRUE,
                 !.props = _mergeDefaultProps(props, DefaultProps(c.cls)),
                 !.state = EmptyState,
                 !._constructorCalled = TRUE]

__canInvokeBeforeMount(c) == ~c._beforeMountCalled /\ "beforeMount" \in c.def
__canInvokeDidMount(c) == ~c._didMountCalled /\ "didMount" \in c.def
__canInvokeAfterMount(c) == ~c._afterMountCalled /\ "afterMount" \in c.def
__enterMountPhase(c) == [c EXCEPT !._isMounting = TRUE]
\* mutant: the mount phase is never left
__exitMountPhaseKeeps(c) == c
__exitMountPhase(c) == [c EXCEPT !._isMounting = FALSE]
__markBeforeMountCalled(c) == [c EXCEPT !._beforeMountCalled = TRUE]
__markDidMountCalled(c) == [c EXCEPT !._didMountCalled = TRUE]
__markAfterMountCalled(c) == [c EXCEPT !._afterMountCalled = TRUE]
__markMounted(c) == [c EXCEPT !._isMounted = TRUE]

\* mutant: the phase check is missing, only the constructor flag is tested
setStateThrowsBeforeConstructorOnly(c) == ~c._constructorCalled

\* mutant: the mounting phase is not taken into account
setStateThrowsUnlessMounted(c) == ~c._constructorCalled \/ ~c._isMounted

\* setState throws: constructor not completed, or neither mounting nor mounted
setStateThrows(c) ==
  ~c._constructorCalled \/ (~c._isMounted /\ ~c._isMounting)

\* mutant: the partial state replaces the state, the other keys are lost
setStateReplaces(c, partialState) ==
  [c EXCEPT !.state = [key \in StateKeys |->
      IF key \in DOMAIN partialState THEN partialState[key] ELSE 0]]

\* setState(partialState) when it does not throw: shallow merge
setState(c, partialState) ==
  [c EXCEPT !.state = [key \in StateKeys |->
      IF key \in DOMAIN partialState THEN partialState[key] ELSE @[key]]]

\* LifecycleManager.getLifecyclePhase
getLifecyclePhase(c) ==
  IF c._isMounted THEN "mounted"
  ELSE IF c._isMounting THEN "mounting"
  ELSE IF c._constructorCalled THEN "constructed"
  ELSE "unknown"

-----------------------------------------------------------------------------
(* The synchronous call stack.                                              *)

Frame(el) ==
  [fn |-> "createDOMNode", el |-> el, pc |-> "entry", node |-> 0, inst |-> 0,
   kids |-> <<>>, idx |-> 0, ret |-> 0]

Top == stack[Len(stack)]
Running(fn, at) == stack # <<>> /\ Top.fn = fn /\ Top.pc = at
Goto(f) == [stack EXCEPT ![Len(stack)] = f]
\* the running frame moves to f and calls createDOMNode(el)
Call(f, el) == Append(Goto(f), Frame(el))
\* the running frame returns node n to its caller
Return(n) ==
  LET rest == SubSeq(stack, 1, Len(stack) - 1)
  IN [rest EXCEPT ![Len(rest)].ret = n]

Event(ev, i, n, st) == [ev |-> ev, inst |-> i, node |-> n, state |-> st]
Log(ev, i, n) == Append(trace, Event(ev, i, n, EmptyState))

\* props.children of an intrinsic VNode as the list the branch iterates:
\* nothing when undefined, the elements of an array, else the single child
ChildList(children) ==
  IF children.k = "undefined" THEN <<>>
  ELSE IF children.k = "array" THEN children.items
  ELSE <<children>>

-----------------------------------------------------------------------------
(* render(element, container)                                               *)

\* the element handed to render(): the tree itself, or the VNode that the
\* evaluated createElement / jsx call produced
Element == IF pc = "created" THEN Top.el ELSE root

\* mutant: the traversal of the container is scheduled before the tree is
\* walked
renderSchedulesFirst ==
  /\ pc \in {"start", "created"}
  /\ pc' = "rendering"
  /\ dom' = clearContainer(dom)
  /\ timers' = Append(timers, Container)
  /\ stack' = <<[Frame(Element) EXCEPT !.fn = "render", !.pc = "appendChild"],
                Frame(Element)>>
  /\ UNCHANGED <<root, inst, travs, trace, faults>>

\* render: container.innerHTML = '' and the call createDOMNode(element)
render ==
  /\ pc \in {"start", "created"}
  /\ pc' = "rendering"
  /\ dom' = clearContainer(dom)
  /\ stack' = <<[Frame(Element) EXCEPT !.fn = "render", !.pc = "appendChild"],
                Frame(Element)>>
  /\ UNCHANGED <<root, inst, timers, travs, trace, faults>>

\* mutant: the node is not appended before render returns
renderAppendMissing ==
  /\ Running("render", "appendChild")
  /\ timers' = Append(timers, Top.ret)
  /\ trace' = Log("insert", 0, Top.ret)
  /\ stack' = <<>>
  /\ pc' = "returned"
  /\ UNCHANGED <<root, dom, inst, travs, faults>>

\* render, after createDOMNode returned: container.appendChild(domNode),
\* setTimeout(() => processAfterMountRecursively(domNode), 0), return
renderAppend ==
  /\ Running("render", "appendChild")
  /\ dom' = appendChild(dom, Container, Top.ret)
  /\ timers' = Append(timers, Top.ret)
  /\ trace' = Log("insert", 0, Top.ret)
  /\ stack' = <<>>
  /\ pc' = "returned"
  /\ UNCHANGED <<root, inst, travs, faults>>

-----------------------------------------------------------------------------
(* createDOMNode(element)                                                   *)

\* mutant: render() catches the error and returns normally
swallowedByRender == [stack |-> <<>>, pc |-> "returned"]

\* an error that no enclosing try block catches: every call up to the
\* caller of render() is left
uncaught == [stack |-> <<>>, pc |-> "threw"]

\* mutant: every value is converted with String()
textOfString(element) ==
  CASE element.k = "text" -> element.v
    [] element.k = "number" -> ToString(element.n)
    [] OTHER -> element.k

\* The content of the text node made for a value that is no array and no
\* VNode with a string or class type: '' for null, undefined and booleans,
\* String(element) for a string or a number, '' for any other shape.
textOf(element) ==
  CASE element.k = "text" -> element.v
    [] element.k = "number" -> ToString(element.n)
    [] OTHER -> ""

\* null / undefined / boolean, primitive, and the fallback for unknown
\* objects (a VNode whose type is a function without render() included):
\* a text node
createText ==
  /\ Running("createDOMNode", "entry")
  /\ Top.el.k \in {"null", "undefined", "true", "false", "text", "number",
                   "object", "function"}
  /\ dom' = createTextNode(dom, textOf(Top.el))
  /\ stack' = Return(Len(dom) + 1)
  /\ UNCHANGED <<root, pc, inst, timers, travs, trace, faults>>

\* array: a new fragment, then one child after the other
createFragment ==
  /\ Running("createDOMNode", "entry")
  /\ Top.el.k = "array"
  /\ dom' = createDocumentFragment(dom)
  /\ stack' = Goto([Top EXCEPT !.node = Len(dom) + 1, !.kids = Top.el.items,
                               !.pc = "children"])
  /\ UNCHANGED <<root, pc, inst, timers, travs, trace, faults>>

\* mutant: the error of the ref callback is not caught
executeRefCallbackNoCatch(acc, element, refCallback) ==
  LET called == [acc EXCEPT
                   !.trace = Append(@, Event("ref", 0, element, EmptyState))]
  IN IF refCallback.throws THEN [called EXCEPT !.threw = TRUE] ELSE called

\* executeRefCallback: try { refCallback(element) } catch { console.error }
\* acc holds the DOM, the observed events and whether an error propagates.
executeRefCallback(acc, element, refCallback) ==
  LET called == [acc EXCEPT
                   !.trace = Append(@, Event("ref", 0, element, EmptyState))]
  IN IF refCallback.throws
     THEN [called EXCEPT
             !.trace = Append(@, Event("Ref callback error:", 0, element,
                                       EmptyState))]
     ELSE called

\* attachEventListener: element.addEventListener(eventName, handler)
attachEventListener(acc, element, eventName, handler) ==
  [acc EXCEPT
     !.dom[element].listeners = addEventListener(@, eventName, handler)]

\* setElementAttribute: element.setAttribute(key, String(value))
setElementAttribute(acc, element, name, value) ==
  [acc EXCEPT !.dom[element].attributes = setAttribute(@, name, String(value))]

\* mutant: the event name keeps the case of the prop name
eventNameKeepsCase(name) == slice(name, 2)

\* key.slice(2).toLowerCase()
eventName(name) == toLowerCase(slice(name, 2))

\* applyPropsToElement: for (const [key, value] of Object.entries(props))
RECURSIVE applyPropsToElement(_, _, _)
applyPropsToElement(acc, element, props) ==
  IF props = <<>> \/ acc.threw THEN acc
  ELSE LET name == Head(props).key
           value == Head(props).value
           next ==
             IF name = CHILDREN THEN acc
             ELSE IF name = REF /\ value.t = "function"
             THEN executeRefCallback(acc, element, value)
             ELSE IF startsWith(name, <<"o", "n">>) /\ value.t = "function"
             THEN attachEventListener(acc, element, eventName(name), value)
             ELSE setElementAttribute(acc, element, name, value)
       IN applyPropsToElement(next, element, Tail(props))

\* intrinsic VNode: a new element, its props applied, then props.children
createIntrinsic ==
  /\ Running("createDOMNode", "entry")
  /\ Top.el.k = "intrinsic"
  /\ LET domEl == Len(dom) + 1
         applied == applyPropsToElement(
                      [dom |-> createElement(dom, Top.el.type),
                       trace |-> trace, threw |-> FALSE],
                      domEl, Top.el.props)
     IN /\ dom' = applied.dom
        /\ trace' = applied.trace
        /\ stack' = IF applied.threw THEN uncaught.stack
                    ELSE Goto([Top EXCEPT
                                 !.node = domEl,
                                 !.kids = ChildList(Get(Top.el.props, CHILDREN,
                                                        Undefined)),
                                 !.pc = "children"])
        /\ pc' = IF applied.threw THEN uncaught.pc ELSE pc
  /\ UNCHANGED <<root, inst, timers, travs, faults>>

\* for (const child of ...) createDOMNode(child); after the last child the
\* fragment / element is returned
forChild ==
  /\ Running("createDOMNode", "children")
  /\ stack' = IF Top.idx < Len(Top.kids)
              THEN Call([Top EXCEPT !.idx = @ + 1, !.pc = "appendChild"],
                        Top.kids[Top.idx + 1])
              ELSE Return(Top.node)
  /\ UNCHANGED <<root, pc, dom, inst, timers, travs, trace, faults>>

\* fragment.appendChild(...) / domEl.appendChild(...) of the created child
appendCreated ==
  /\ Running("createDOMNode", "appendChild")
  /\ dom' = appendChild(dom, Top.node, Top.ret)
  /\ stack' = Goto([Top EXCEPT !.pc = "children"])
  /\ UNCHANGED <<root, pc, inst, timers, travs, trace, faults>>

-----------------------------------------------------------------------------
(* The outcomes a hook may take: the failing ones only while the run has    *)
(* not used up its failures.                                                *)
Faulty(failing, outcomes) ==
  IF faults < MaxFaults THEN outcomes ELSE outcomes \ failing

-----------------------------------------------------------------------------
(* The guard / fallback rule shared by the executors:                       *)
(*   typeof c.__canInvokeX === 'function' ? c.__canInvokeX()                *)
(*                                        : typeof c.X === 'function'       *)

canInvoke(c, hook) ==
  IF c.guards
  THEN CASE hook = "beforeMount" -> __canInvokeBeforeMount(c)
         [] hook = "didMount"    -> __canInvokeDidMount(c)
         [] hook = "afterMount"  -> __canInvokeAfterMount(c)
  ELSE hook \in c.def

\* mutant: the consumed flag is never set
markCalledForgets(c, hook) == c

\* if (typeof c.__markXCalled === 'function') c.__markXCalled()
markCalled(c, hook) ==
  IF c.guards
  THEN CASE hook = "beforeMount" -> __markBeforeMountCalled(c)
         [] hook = "didMount"    -> __markDidMountCalled(c)
         [] hook = "afterMount"  -> __markAfterMountCalled(c)
  ELSE c

-----------------------------------------------------------------------------
(* The class component branch of createDOMNode.                             *)

\* mutant: beforeMount is run after the first render
mountStepRenderFirst(at) ==
  CASE at = "new"                -> "render"
    [] at = "render"             -> "executeBeforeMount"
    [] at = "executeBeforeMount" -> "executeDidMount"
    [] at = "executeDidMount"    -> "attachComponentToNode"

\* mutant: didMount is run before render() and the DOM creation
mountStepDidMountEarly(at) ==
  CASE at = "new"                -> "executeBeforeMount"
    [] at = "executeBeforeMount" -> "executeDidMount"
    [] at = "executeDidMount"    -> "render"
    [] at = "render"             -> "attachComponentToNode"

\* The statement order of the branch: which step follows which
mountStep(at) ==
  CASE at = "new"                -> "executeBeforeMount"
    [] at = "executeBeforeMount" -> "render"
    [] at = "render"             -> "executeDidMount"
    [] at = "executeDidMount"    -> "attachComponentToNode"

\* const instance = new ComponentClass(classElement.props || {})
\* An error thrown by the constructor is not caught by createDOMNode.
construct ==
  /\ Running("createDOMNode", "entry")
  /\ Top.el.k = "class"
  /\ \E profile \in ProfilesOf(Top.el.type) :
       LET cls == Top.el.type
           threw == ConstructorError(cls, profile, Top.el.props) # <<>>
       IN /\ inst' = Append(inst,
                IF threw THEN FailedConstruction(cls, profile, Top.el.props)
                ELSE ComponentClass(cls, profile, Top.el.props))
          /\ trace' = trace \o <<Event("constructor", Len(inst) + 1, 0,
                                       EmptyState)>>
               \o (IF threw
                   THEN <<Event("uncaught", Len(inst) + 1, 0, EmptyState)>>
                   ELSE <<>>)
          /\ stack' = IF threw THEN uncaught.stack
                      ELSE Goto([Top EXCEPT !.inst = Len(inst) + 1,
                                            !.pc = mountStep("new")])
          /\ pc' = IF threw THEN uncaught.pc ELSE pc
  /\ UNCHANGED <<root, dom, timers, travs, faults>>

\* executeBeforeMount up to the hook call: enter the mount phase, evaluate
\* the guard, mark the hook consumed
executeBeforeMount ==
  /\ Running("createDOMNode", "executeBeforeMount")
  /\ LET i == Top.inst
         c == IF inst[i].guards THEN __enterMountPhase(inst[i]) ELSE inst[i]
     IN IF canInvoke(c, "beforeMount")
        THEN /\ inst' = [inst EXCEPT ![i] = markCalled(c, "beforeMount")]
             /\ stack' = Goto([Top EXCEPT !.pc = "beforeMount"])
        ELSE /\ inst' = [inst EXCEPT ![i] = c]
             /\ stack' = Goto([Top EXCEPT !.pc = "exitMountPhase"])
  /\ UNCHANGED <<root, pc, dom, timers, travs, trace, faults>>

\* the bodies among all that the run may still take: a failing one only
\* while the run has not used up its failures
Affordable(all, failing) == {b \in all : b \in failing => faults < MaxFaults}

\* the event of a this.setState(...) call made by a hook body or render()
SetStateEvent(calls, c, i, n, st) ==
  IF calls
  THEN <<Event(IF setStateThrows(c) THEN "setState throws" ELSE "setState",
               i, n, st)>>
  ELSE <<>>

\* what the body of a beforeMount hook does: returns, throws, calls
\* this.setState(BeforeMountPartial) and returns, or returns a promise
BeforeMountBodies(c) ==
  IF c.cls \in PlainClasses THEN {"return"} ELSE
  Faulty({"throw"},
         {"return", "throw"}
           \cup (IF c.guards THEN {"setState"} ELSE {})
           \cup (IF c.cls \in AsyncClasses THEN {"promise"} ELSE {}))

BeforeMountPartial == [v |-> 7]

\* mutant: the mount phase is only left when the hook did not throw
AfterBeforeMountNoFinally(threw) ==
  IF threw THEN mountStep("executeBeforeMount") ELSE "exitMountPhase"

\* try { ... } catch { console.error } finally { __exitMountPhase }: the
\* finally block follows the hook call whether it threw or not
AfterBeforeMount(threw) == "exitMountPhase"

\* component.beforeMount?.() inside the try, and the catch block; a
\* returned promise is dropped
beforeMount ==
  /\ Running("createDOMNode", "beforeMount")
  /\ \E body \in BeforeMountBodies(inst[Top.inst]) :
       LET i == Top.inst
           c == inst[i]
           calls == body = "setState"
           threw == body = "throw" \/ (calls /\ setStateThrows(c))
           c1 == IF calls /\ ~setStateThrows(c)
                 THEN setState(c, BeforeMountPartial)
                 ELSE IF body = "promise"
                 THEN [c EXCEPT !.beforeMountResult = "pending"]
                 ELSE c
       IN /\ inst' = [inst EXCEPT ![i] = c1]
          /\ faults' = IF body = "throw" THEN faults + 1 ELSE faults
          /\ trace' = trace \o <<Event("beforeMount", i, 0, c.state)>>
               \o SetStateEvent(calls, c, i, 0, c1.state)
               \o (IF threw
                   THEN <<Event("beforeMount() error:", i, 0, c1.state)>>
                   ELSE <<>>)
          /\ stack' = Goto([Top EXCEPT !.pc = AfterBeforeMount(threw)])
  /\ UNCHANGED <<root, pc, dom, timers, travs>>

\* finally: component.__exitMountPhase()
exitMountPhase ==
  /\ Running("createDOMNode", "exitMountPhase")
  /\ LET i == Top.inst
     IN inst' = [inst EXCEPT ![i] =
                   IF @.guards THEN __exitMountPhase(@) ELSE @]
  /\ stack' = Goto([Top EXCEPT !.pc = mountStep("executeBeforeMount")])
  /\ UNCHANGED <<root, pc, dom, timers, travs, trace, faults>>

\* what the body of render() does before it returns its result: nothing,
\* a this.setState(RenderPartial) call, or a throw
RenderBodies(c) ==
  IF c.cls \in PlainClasses THEN {"return"} ELSE
  {"return", "throw"} \cup (IF c.guards THEN {"setState"} ELSE {})

RenderPartial == [w |-> 8]

\* const result = instance.render(); const domNode = createDOMNode(result)
\* An error thrown by render() is not caught by createDOMNode.
instanceRender ==
  /\ Running("createDOMNode", "render")
  /\ \E body \in RenderBodies(inst[Top.inst]) :
       LET i == Top.inst
           c == inst[i]
           calls == body = "setState"
           threw == body = "throw" \/ (calls /\ setStateThrows(c))
           c1 == IF calls /\ ~setStateThrows(c)
                 THEN setState(c, RenderPartial) ELSE c
       IN /\ inst' = [inst EXCEPT ![i] = c1]
          /\ trace' = trace \o <<Event("render", i, 0, c.state)>>
               \o SetStateEvent(calls, c, i, 0, c1.state)
               \o (IF threw THEN <<Event("uncaught", i, 0, c1.state)>>
                   ELSE <<>>)
          /\ stack' = IF threw THEN uncaught.stack
                      ELSE Call([Top EXCEPT !.pc = mountStep("render")],
                                RenderOf(c.cls))
          /\ pc' = IF threw THEN uncaught.pc ELSE pc
  /\ UNCHANGED <<root, dom, timers, travs, faults>>

\* what the body of a didMount hook does: returns, throws, calls
\* this.setState(DidMountPartial) and returns, or returns a promise
DidMountAll(c) ==
  IF c.cls \in PlainClasses THEN {"return"} ELSE
  {"return", "throw"}
    \cup (IF c.guards THEN {"setState"} ELSE {})
    \cup (IF c.cls \in AsyncClasses THEN {"promise"} ELSE {})

DidMountBodies(c) ==
  Affordable(DidMountAll(c),
             {"throw"} \cup (IF setStateThrows(c) THEN {"setState"} ELSE {}))

DidMountPartial == [v |-> 9]

\* mutant: a hook that threw leaves the instance unmounted
markMountedUnlessThrew(c, threw) ==
  IF c.guards /\ ~threw THEN __markMounted(c) ELSE c

\* component.__markMounted(), right after the hook call returned and, when
\* the call threw, in the catch block
markMountedAfter(c, threw) == IF c.guards THEN __markMounted(c) ELSE c

\* executeDidMount(instance): guard, consumed-marker, the hook call, the
\* mounted-marker, .catch on a returned promise; the catch block
executeDidMount ==
  /\ Running("createDOMNode", "executeDidMount")
  /\ LET i == Top.inst
         c == inst[i]
     IN IF canInvoke(c, "didMount")
        THEN \E body \in DidMountBodies(markCalled(c, "didMount")) :
               LET c0 == markCalled(c, "didMount")
                   calls == body = "setState"
                   threw == body = "throw" \/ (calls /\ setStateThrows(c0))
                   c1 == IF calls /\ ~setStateThrows(c0)
                         THEN setState(c0, DidMountPartial)
                         ELSE IF body = "promise"
                         THEN [c0 EXCEPT !.didMountResult = "pending"]
                         ELSE c0
               IN /\ inst' = [inst EXCEPT ![i] = markMountedAfter(c1, threw)]
                  /\ trace' = trace
                       \o <<Event("didMount", i, Top.ret, c.state)>>
                       \o SetStateEvent(calls, c0, i, Top.ret, c1.state)
                       \o (IF threw
                           THEN <<Event("didMount() error:", i, Top.ret,
                                        c1.state)>>
                           ELSE <<>>)
                  /\ faults' = IF threw THEN faults + 1 ELSE faults
        ELSE UNCHANGED <<inst, trace, faults>>
  /\ stack' = Goto([Top EXCEPT !.pc = mountStep("executeDidMount")])
  /\ UNCHANGED <<root, pc, dom, timers, travs>>

\* attachComponentToNode(domNode, instance); return domNode
\* (domNode is what createDOMNode(result) returned)
attach ==
  /\ Running("createDOMNode", "attachComponentToNode")
  /\ dom' = attachComponentToNode(dom, Top.ret, Top.inst)
  /\ trace' = Log("attach", Top.inst, Top.ret)
  /\ stack' = Return(Top.ret)
  /\ UNCHANGED <<root, pc, inst, timers, travs, faults>>

-----------------------------------------------------------------------------
(* processAfterMountRecursively(node): an async function.  A task is the    *)
(* chain of its pending recursive calls (last element = running call) and   *)
(* the status of the promise the outermost call returned.                   *)

TFrame(node) == [node |-> node, pc |-> "entry", kids |-> <<>>, idx |-> 0]

Task(node) ==
  [root |-> node, status |-> "running", frames |-> <<TFrame(node)>>]

TTop(t) == travs[t].frames[Len(travs[t].frames)]
At(t, at) ==
  /\ travs[t].status = "running"
  /\ travs[t].frames # <<>>
  /\ TTop(t).pc = at
TGoto(t, f) == [travs EXCEPT ![t].frames[Len(travs[t].frames)] = f]

\* a task that can take a step without waiting for a promise
Runnable(t) == travs[t].status = "running" /\ TTop(t).pc # "await"

\* timers and promise settlements are delivered by the event loop only when
\* no synchronous code and no continuation of a task is left to run
Idle == stack = <<>> /\ \A t \in DOMAIN travs : ~Runnable(t)

\* the setTimeout callback of render: processAfterMountRecursively(domNode)
timerFires ==
  /\ Idle
  /\ timers # <<>>
  /\ travs' = Append(travs, Task(Head(timers)))
  /\ timers' = Tail(timers)
  /\ UNCHANGED <<root, pc, dom, inst, stack, trace, faults>>

\* mutant: a returned promise is not awaited
AfterCallNoAwait(outcome) ==
  CASE outcome = "return"  -> "finally"
    [] outcome = "promise" -> "finally"
    [] outcome = "throw"   -> "catch"

\* mutant: a returned promise is given up like a hook that threw
AfterCallGivesUp(outcome) ==
  CASE outcome = "return"  -> "finally"
    [] outcome = "promise" -> "catch"
    [] outcome = "throw"   -> "catch"

\* where control goes when the hook call inside the try block completes:
\* a plain return leaves the try, a thenable is awaited, a throw is caught
AfterCall(outcome) ==
  CASE outcome = "return"  -> "finally"
    [] outcome = "promise" -> "await"
    [] outcome = "throw"   -> "catch"

\* where control goes when the awaited promise settles
AfterAwait(outcome) ==
  CASE outcome = "resolve" -> "finally"
    [] outcome = "reject"  -> "catch"

AfterMountOutcomes == Faulty({"throw"}, {"return", "throw", "promise"})

SettleOutcomes == Faulty({"reject"}, {"resolve", "reject"})

\* if (componentNode.__atomComponent) { try { guard; mark; afterMount() ...
\* and, for a node without attachment, straight to the child loop
visitNode(t) ==
  /\ At(t, "entry")
  /\ LET f == TTop(t)
         a == dom[f.node].__atomComponent
     IN IF a = 0
        THEN /\ travs' = TGoto(t, [f EXCEPT !.pc = "children",
                                            !.kids = dom[f.node].childNodes])
             /\ UNCHANGED <<inst, trace, faults>>
        ELSE IF ~canInvoke(inst[a], "afterMount")
        THEN /\ travs' = TGoto(t, [f EXCEPT !.pc = "finally"])
             /\ UNCHANGED <<inst, trace, faults>>
        ELSE \E outcome \in AfterMountOutcomes :
               /\ inst' = [inst EXCEPT ![a] = markCalled(@, "afterMount")]
               /\ faults' = IF outcome = "throw" THEN faults + 1 ELSE faults
               /\ trace' = trace
                    \o <<Event("afterMount", a, f.node, inst[a].state)>>
                    \o (IF outcome = "promise"
                        THEN <<Event("pending", a, f.node, inst[a].state)>>
                        ELSE <<>>)
               /\ travs' = TGoto(t, [f EXCEPT !.pc = AfterCall(outcome)])
  /\ UNCHANGED <<root, pc, dom, stack, timers>>

\* await result: the promise returned by afterMount settles
settle(t) ==
  /\ Idle
  /\ At(t, "await")
  /\ \E outcome \in SettleOutcomes :
       /\ travs' = TGoto(t, [TTop(t) EXCEPT !.pc = AfterAwait(outcome)])
       /\ faults' = IF outcome = "reject" THEN faults + 1 ELSE faults
       /\ trace' = Log(outcome, dom[TTop(t).node].__atomComponent,
                       TTop(t).node)
  /\ UNCHANGED <<root, pc, dom, inst, stack, timers>>

\* the promise a hook of the mounting sequence returned, by hook
HookResult(c, hook) ==
  IF hook = "beforeMount" THEN c.beforeMountResult ELSE c.didMountResult

\* the handler a rejection of that promise finds: executeDidMount attached
\* .catch(error => console.error('Async didMount() error:', error));
\* executeBeforeMount dropped the promise, so the rejection is unhandled
RejectionEvent(hook) ==
  IF hook = "didMount" THEN "Async didMount() error:" ELSE "unhandledrejection"

\* the promise returned by a beforeMount or didMount hook settles
settleHook ==
  /\ Idle
  /\ \E i \in DOMAIN inst : \E hook \in {"beforeMount", "didMount"} :
       \E outcome \in SettleOutcomes :
         /\ HookResult(inst[i], hook) = "pending"
         /\ LET status == IF outcome = "resolve" THEN "resolved" ELSE "rejected"
            IN inst' = [inst EXCEPT ![i] =
                 IF hook = "beforeMount"
                 THEN [@ EXCEPT !.beforeMountResult = status]
                 ELSE [@ EXCEPT !.didMountResult = status]]
         /\ faults' = IF outcome = "reject" THEN faults + 1 ELSE faults
         /\ trace' = Log(IF outcome = "resolve" THEN hook \o " resolved"
                         ELSE RejectionEvent(hook), i, 0)
  /\ UNCHANGED <<root, pc, dom, stack, timers, travs>>

\* mutant: the error leaves the function, the task's promise rejects
catchRethrows(task) == [task EXCEPT !.status = "rejected"]

\* mutant: the cleanup is skipped when the hook failed
catchSkipsCleanup(task) ==
  [task EXCEPT !.frames[Len(task.frames)].pc = "children",
               !.frames[Len(task.frames)].kids =
                 dom[task.frames[Len(task.frames)].node].childNodes]

\* the catch block: the error is logged and not rethrown, so the finally
\* block and the child loop follow
catchBlock(task) == [task EXCEPT !.frames[Len(task.frames)].pc = "finally"]

\* catch (error) { console.error('afterMount() error:', error) }
catch(t) ==
  /\ At(t, "catch")
  /\ trace' = Log("afterMount() error:", dom[TTop(t).node].__atomComponent,
                  TTop(t).node)
  /\ travs' = [travs EXCEPT ![t] = catchBlock(@)]
  /\ UNCHANGED <<root, pc, dom, inst, stack, timers, faults>>

\* finally { delete componentNode.__atomComponent }
finally(t) ==
  /\ At(t, "finally")
  /\ dom' = deleteAttachment(dom, TTop(t).node)
  /\ trace' = Log("delete", dom[TTop(t).node].__atomComponent, TTop(t).node)
  /\ travs' = TGoto(t, [TTop(t) EXCEPT !.pc = "children",
                                       !.kids = dom[TTop(t).node].childNodes])
  /\ UNCHANGED <<root, pc, inst, stack, timers, faults>>

\* mutant: the children are taken last to first
nextChildReversed(f) == f.kids[Len(f.kids) - f.idx]

\* the child the loop over Array.from(node.childNodes) takes next
nextChild(f) == f.kids[f.idx + 1]

\* for (const child of Array.from(node.childNodes))
\*   await processAfterMountRecursively(child)
\* and the return of the call after the last child
forChildNode(t) ==
  /\ At(t, "children")
  /\ LET f == TTop(t)
         fs == travs[t].frames
     IN IF f.idx < Len(f.kids)
        THEN travs' = [travs EXCEPT ![t].frames =
                         Append([fs EXCEPT ![Len(fs)].idx = @ + 1],
                                TFrame(nextChild(f)))]
        ELSE travs' = [travs EXCEPT
                         ![t].frames = SubSeq(fs, 1, Len(fs) - 1),
                         ![t].status = IF Len(fs) = 1 THEN "resolved" ELSE @]
  /\ UNCHANGED <<root, pc, dom, inst, stack, timers, trace, faults>>

-----------------------------------------------------------------------------
Init ==
  /\ root \in Roots
  /\ pc = "start"
     \* the container holds content of an earlier render
  /\ dom = <<[NewNode("element", "div") EXCEPT !.childNodes = <<2>>],
             [NewNode("text", "old") EXCEPT !.parentNode = Container]>>
  /\ inst = <<>>
  /\ stack = <<>>
  /\ timers = <<>>
  /\ travs = <<>>
  /\ trace = <<>>
  /\ faults = 0

Next ==
  \/ render
  \/ renderAppend
  \/ createText
  \/ createFragment
  \/ createIntrinsic
  \/ forChild
  \/ appendCreated
  \/ construct
  \/ executeBeforeMount
  \/ beforeMount
  \/ exitMountPhase
  \/ instanceRender
  \/ executeDidMount
  \/ attach
  \/ timerFires
  \/ settleHook
  \/ \E t \in DOMAIN travs : visitNode(t)
  \/ \E t \in DOMAIN travs : settle(t)
  \/ \E t \in DOMAIN travs : catch(t)
  \/ \E t \in DOMAIN travs : finally(t)
  \/ \E t \in DOMAIN travs : forChildNode(t)

Spec == Init /\ [][Next]_vars

-----------------------------------------------------------------------------
(* Reading the trace and the DOM.                                           *)

\* the positions of the events ev of instance i
Idx(ev, i) == {k \in DOMAIN trace : trace[k].ev = ev /\ trace[k].inst = i}
Happened(ev, i) == Idx(ev, i) # {}
HookEvents == {"beforeMount", "didMount", "afterMount"}

\* n is the container or a descendant of it
RECURSIVE Under(_)
Under(n) ==
  IF n = Container THEN TRUE
  ELSE IF dom[n].parentNode = 0 THEN FALSE
  ELSE Under(dom[n].parentNode)

\* the nodes of the subtree of n, in document order
RECURSIVE PreOrder(_)
RECURSIVE PreOrderAll(_)
PreOrder(n) == <<n>> \o PreOrderAll(dom[n].childNodes)
PreOrderAll(ns) ==
  IF ns = <<>> THEN <<>> ELSE PreOrder(Head(ns)) \o PreOrderAll(Tail(ns))

\* the nodes this render created (the container and its old content were
\* there before)
Created == {n \in DOMAIN dom : n > 2}

-----------------------------------------------------------------------------
(* C1: for every instance the observed events come in the order             *)
(* constructor, beforeMount, render, didMount, insertion into the           *)
(* container, afterMount, each of them at most once; the constructor comes  *)
(* first, no hook runs before render() unless it is beforeMount, and        *)
(* afterMount never runs before the insertion.                              *)

LifecycleOrder ==
  <<"constructor", "beforeMount", "render", "didMount", "insert", "afterMount">>
Rank(ev) == CHOOSE r \in DOMAIN LifecycleOrder : LifecycleOrder[r] = ev

\* the lifecycle events of instance i, with the insertion of the tree
EventsOf(i) ==
  SelectSeq(trace, LAMBDA e :
    \/ e.ev = "insert"
    \/ e.inst = i /\ e.ev \in Range(LifecycleOrder))

C1_LifecycleOrder ==
  \A i \in DOMAIN inst :
    LET es == EventsOf(i)
    IN /\ es # <<>> /\ es[1].ev = "constructor"
       /\ \A k \in 1..(Len(es) - 1) : Rank(es[k].ev) < Rank(es[k + 1].ev)
       /\ \A k \in DOMAIN es :
            /\ es[k].ev \in HookEvents => es[k].ev \in inst[i].def
            /\ es[k].ev \in {"didMount", "insert", "afterMount"}
                 => \E j \in 1..(k - 1) : es[j].ev = "render"
            /\ es[k].ev = "afterMount"
                 => \E j \in 1..(k - 1) : es[j].ev = "insert"

\* an instance that went through all six events
C1_Witness ==
  \E i \in DOMAIN inst : Len(EventsOf(i)) = Len(LifecycleOrder)

-----------------------------------------------------------------------------
(* C2: when render() has returned and the timer has not fired yet, the      *)
(* container holds the materialized DOM (every node created by this render  *)
(* that is not a fragment, and nothing of the old content) and no           *)
(* afterMount has been invoked; an afterMount is only ever invoked by a     *)
(* traversal that the timer started after render() returned.                *)

JustReturned == pc = "returned" /\ travs = <<>>

Materialized ==
  /\ dom[Container].childNodes # <<>>
  /\ \A n \in Created : dom[n].kind # "fragment" => Under(n)
  /\ \A n \in DOMAIN dom : n \notin Created /\ n # Container => ~Under(n)

C2_AfterMountDeferred ==
  /\ JustReturned =>
       /\ Materialized
       /\ timers # <<>>
       /\ \A k \in DOMAIN trace : trace[k].ev # "afterMount"
  /\ (\E k \in DOMAIN trace : trace[k].ev = "afterMount") =>
       pc = "returned" /\ travs # <<>> /\ stack = <<>>

\* render() has returned, an instance with an afterMount hook sits on a
\* node inside the container, and its hook has not run
C2_Witness ==
  /\ JustReturned
  /\ \E n \in Created :
       /\ Under(n)
       /\ dom[n].__atomComponent # 0
       /\ "afterMount" \in inst[dom[n].__atomComponent].def

-----------------------------------------------------------------------------
(* C3: once the traversal scheduled by render has run to completion, every  *)
(* instance created by this render that defines afterMount has had it       *)
(* invoked exactly once, whatever the shape of the tree.                    *)

TraversalsDone ==
  /\ pc = "returned"
  /\ timers = <<>>
  /\ \A t \in DOMAIN travs : travs[t].status = "resolved"

C3_EveryAfterMountInvoked ==
  TraversalsDone =>
    \A i \in DOMAIN inst :
      "afterMount" \in inst[i].def => Cardinality(Idx("afterMount", i)) = 1

-----------------------------------------------------------------------------
(* C4: within a traversal the afterMount hooks are invoked in document      *)
(* order (depth-first pre-order) of the nodes they are attached to: a       *)
(* node's hook before the hooks of its descendants, and the subtrees of     *)
(* the children one after the other, first child first.                     *)

PosIn(seq, x) == CHOOSE k \in DOMAIN seq : seq[k] = x

\* the afterMount events on the nodes of the tree that task t walks
HooksOf(t) ==
  SelectSeq(trace, LAMBDA e :
    e.ev = "afterMount" /\ e.node \in Range(PreOrder(travs[t].root)))

\* a is a proper ancestor of n
RECURSIVE IsAncestor(_, _)
IsAncestor(a, n) ==
  /\ dom[n].parentNode # 0
  /\ (dom[n].parentNode = a \/ IsAncestor(a, dom[n].parentNode))

C4_PreOrderTraversal ==
  \A t \in DOMAIN travs :
    LET doc == PreOrder(travs[t].root)
        hooks == HooksOf(t)
    IN /\ \A k \in 1..(Len(hooks) - 1) :
            PosIn(doc, hooks[k].node) < PosIn(doc, hooks[k + 1].node)
       /\ \A j, k \in DOMAIN hooks :
            IsAncestor(hooks[j].node, hooks[k].node) => j < k

\* a hook ran on a node, then on a descendant of it, then on a node of a
\* later sibling subtree
C4_Witness ==
  \E t \in DOMAIN travs :
    LET hooks == HooksOf(t)
    IN /\ Len(hooks) >= 3
       /\ IsAncestor(hooks[1].node, hooks[2].node)
       /\ ~IsAncestor(hooks[1].node, hooks[3].node)

-----------------------------------------------------------------------------
(* C5: when the output of a parent's render() contains a child component,   *)
(* the child's constructor, beforeMount, render and didMount have all run   *)
(* (its mounting sequence is complete) before the parent's didMount runs,   *)
(* and the parent's afterMount runs before the child's afterMount.          *)

\* c was created while the output of p's render() was materialized
Contains(p, c) ==
  /\ p # c
  /\ \E r \in Idx("render", p) : \E k \in Idx("constructor", c) :
       /\ r < k
       /\ \A a \in Idx("attach", p) : k < a

MountEvents == {"constructor", "beforeMount", "render", "didMount", "attach"}

C5_ChildMountsFirstParentAfterMountsFirst ==
  \A p, c \in DOMAIN inst :
    Contains(p, c) =>
      /\ \A d \in Idx("didMount", p) :
           /\ \E a \in Idx("attach", c) : a < d
           /\ \A k \in DOMAIN trace :
                trace[k].inst = c /\ trace[k].ev \in MountEvents => k < d
      /\ \A j \in Idx("afterMount", p) : \A k \in Idx("afterMount", c) : j < k

\* a parent and a child that both ran didMount and afterMount
C5_Witness ==
  \E p, c \in DOMAIN inst :
    /\ Contains(p, c)
    /\ Happened("didMount", p) /\ Happened("didMount", c)
    /\ Happened("afterMount", p) /\ Happened("afterMount", c)

-----------------------------------------------------------------------------
(* C6: a failing afterMount (thrown error or rejected promise) never makes  *)
(* the traversal's promise reject, and never stops the traversal: when the  *)
(* traversal has resolved, every node of the walked tree has been           *)
(* processed, so every instance attached to one of them that defines        *)
(* afterMount has had it invoked.                                           *)

TreeNodes(t) == Range(PreOrder(travs[t].root))

\* the instance attached to node n when the traversal reaches it: the one
\* of the last attachment made on n (0 if none)
Attached(n) ==
  LET as == {k \in DOMAIN trace : trace[k].ev = "attach" /\ trace[k].node = n}
  IN IF as = {} THEN 0
     ELSE trace[CHOOSE k \in as : \A j \in as : j <= k].inst

C6_FailureDoesNotStopTraversal ==
  \A t \in DOMAIN travs :
    /\ travs[t].status # "rejected"
    /\ travs[t].status = "resolved" =>
         \A n \in TreeNodes(t) :
           Attached(n) # 0 /\ "afterMount" \in inst[Attached(n)].def
             => Happened("afterMount", Attached(n))

\* a traversal resolved although a hook failed, and a hook of a later node
\* ran after the failure
C6_Witness ==
  \E t \in DOMAIN travs :
    /\ travs[t].status = "resolved"
    /\ \E j, k \in DOMAIN trace :
         /\ j < k
         /\ trace[j].ev = "afterMount() error:"
         /\ trace[k].ev = "afterMount"
         /\ {trace[j].node, trace[k].node} \subseteq TreeNodes(t)

-----------------------------------------------------------------------------
(* C7: a node that the traversal has finished with carries no attachment,   *)
(* whatever happened there (hook returned, threw, its promise resolved or   *)
(* rejected, or the guard refused the hook): in the walked tree only the    *)
(* nodes the traversal is still working on or has not reached yet can       *)
(* carry one, and between the afterMount calls on two nodes the attachment  *)
(* of the first one is deleted.                                             *)

\* the nodes a pending call still has to deal with: its own node and the
\* subtree below it until the child loop starts, then the subtrees of the
\* children the loop has not taken yet
PendingOf(f) ==
  IF f.pc # "children" THEN Range(PreOrder(f.node))
  ELSE UNION {Range(PreOrder(f.kids[j])) : j \in (f.idx + 1)..Len(f.kids)}

Pending(t) ==
  UNION {PendingOf(travs[t].frames[k]) : k \in DOMAIN travs[t].frames}

C7_AttachmentRemovedAfterNode ==
  \A t \in DOMAIN travs :
    /\ \A n \in TreeNodes(t) :
         dom[n].__atomComponent # 0 => n \in Pending(t)
    /\ \A j, k \in DOMAIN trace :
         /\ j < k
         /\ trace[j].ev = "afterMount" /\ trace[k].ev = "afterMount"
         /\ {trace[j].node, trace[k].node} \subseteq TreeNodes(t)
         => \E d \in (j + 1)..(k - 1) :
              trace[d].ev = "delete" /\ trace[d].node = trace[j].node

\* a finished traversal that met a failed hook and an instance whose guard
\* refused the hook, both cleaned up, and ran a hook on a later node
C7_Witness ==
  \E t \in DOMAIN travs :
    /\ travs[t].status = "resolved"
    /\ \E e \in DOMAIN trace :
         /\ trace[e].ev = "afterMount() error:"
         /\ \E d \in DOMAIN trace :
              /\ trace[d].ev = "delete" /\ trace[d].node = trace[e].node
              /\ e < d
              /\ \E g \in DOMAIN trace :
                   /\ trace[g].ev = "delete"
                   /\ ~Happened("afterMount", trace[g].inst)
                   /\ \E k \in DOMAIN trace :
                        /\ trace[k].ev = "afterMount" /\ d < k /\ g < k
                        /\ {trace[d].node, trace[g].node, trace[k].node}
                             \subseteq TreeNodes(t)

-----------------------------------------------------------------------------
(* C8: the attachment of a DOM node is written at most once and deleted at  *)
(* most once; no node has the attachment of one instance replaced by that   *)
(* of another.                                                              *)

EventsOn(ev, n) == {k \in DOMAIN trace : trace[k].ev = ev /\ trace[k].node = n}

C8_AttachmentWrittenOnce ==
  \A n \in DOMAIN dom :
    /\ Cardinality(EventsOn("attach", n)) <= 1
    /\ Cardinality(EventsOn("delete", n)) <= 1

-----------------------------------------------------------------------------
(* C9: the afterMount hooks of one traversal never overlap: after a hook    *)
(* has returned a promise, no afterMount of another node of that traversal  *)
(* is invoked before the promise has settled.                               *)

Settled == {"resolve", "reject"}

C9_HooksDoNotOverlap ==
  \A t \in DOMAIN travs :
    \A j \in DOMAIN trace :
      trace[j].ev = "pending" /\ trace[j].node \in TreeNodes(t) =>
        \A k \in (j + 1)..Len(trace) :
          trace[k].ev = "afterMount" /\ trace[k].node \in TreeNodes(t) =>
            \E d \in (j + 1)..(k - 1) :
              trace[d].ev \in Settled /\ trace[d].node = trace[j].node

\* a hook returned a promise, the promise settled, then the hook of another
\* node ran
C9_Witness ==
  \E j \in DOMAIN trace :
    /\ trace[j].ev = "pending"
    /\ \E k \in (j + 1)..Len(trace) :
         trace[k].ev = "afterMount" /\ trace[k].node # trace[j].node

-----------------------------------------------------------------------------
(* C10: a setState call made inside beforeMount does not throw; the state   *)
(* it produces is the old state with the keys of the partial state          *)
(* overridden, and it is the state the following render() of that instance  *)
(* sees; render() is called at most once per instance, exactly once for an  *)
(* instance whose mounting sequence has completed.                          *)

C10_SetStateInBeforeMount ==
  /\ \A k \in DOMAIN trace :
       trace[k].ev = "beforeMount" /\ k < Len(trace)
       /\ trace[k + 1].inst = trace[k].inst =>
         /\ trace[k + 1].ev # "setState throws"
         /\ trace[k + 1].ev = "setState" =>
              /\ trace[k + 1].state.v = BeforeMountPartial.v
              /\ trace[k + 1].state.w = trace[k].state.w
              /\ \A r \in Idx("render", trace[k].inst) :
                   r > k /\ trace[r].state = trace[k + 1].state
  /\ \A i \in DOMAIN inst :
       /\ Cardinality(Idx("render", i)) <= 1
       /\ Happened("attach", i) => Cardinality(Idx("render", i)) = 1

\* an instance with a non-empty state called setState in beforeMount, was
\* rendered and finished mounting
C10_Witness ==
  \E i \in DOMAIN inst :
    /\ Happened("setState", i)
    /\ Happened("render", i)
    /\ Happened("attach", i)
    /\ inst[i].state.w # 0

-----------------------------------------------------------------------------
(* setState over the life of one instance.  The instance starts with the    *)
(* field initializers applied (all flags false) and the base constructor    *)
(* not completed; super(props) returns, the subclass constructor returns,   *)
(* and the phase flags are switched by their public methods, while          *)
(* setState is called at any of these points.                               *)

\* at most this many calls (of setState, of an executor) on one instance
MaxCalls == 2

\* the partial states handed to setState
Partials == {[v |-> 7], [v |-> 9], [w |-> 8], [v |-> 7, w |-> 8]}

BeforeConstructorError ==
  "setState() called on component before constructor completed. Make sure to call super(props) in your constructor."
DuringConstructorError ==
  "Cannot call setState() during constructor. Use this.state = {...} instead."

\* the message of the error setState throws, when it throws
setStateError(c) ==
  IF ~c._constructorCalled THEN BeforeConstructorError
  ELSE DuringConstructorError

SetStateInit ==
  /\ root \in {Comp("Leaf"), Comp("Parent")}
  /\ pc = "new"
  /\ dom = <<>>
  /\ inst = <<FieldInitializers(root.type, [def |-> Hooks, guards |-> TRUE])>>
  /\ stack = <<>>
  /\ timers = <<>>
  /\ travs = <<>>
  /\ trace = <<>>
  /\ faults = 0

\* super(props) in the subclass constructor: the base constructor runs on
\* the new instance and returns
superReturns ==
  /\ pc = "new"
  /\ pc' = "super"
  /\ inst' = [inst EXCEPT ![1] = AtomComponent(@, root.props)]
  /\ UNCHANGED <<root, dom, stack, timers, travs, trace, faults>>

\* the base constructor is run once more on the same instance (a second
\* super(props) of the subclass constructor, or a later call on the
\* constructed instance): what it throws ends the caller's run
superAgain ==
  /\ pc \in {"super", "constructed"}
  /\ LET c == AtomComponent(inst[1], root.props)
     IN /\ inst' = [inst EXCEPT ![1] = c]
        /\ pc' = IF c.thrown # <<>> THEN uncaught.pc ELSE "super"
  /\ UNCHANGED <<root, dom, stack, timers, travs, trace, faults>>

\* the subclass constructor assigns this.state and returns
constructorReturns ==
  /\ pc = "super"
  /\ pc' = "constructed"
  /\ inst' = [inst EXCEPT ![1].state = ConstructorState(root.type)]
  /\ UNCHANGED <<root, dom, stack, timers, travs, trace, faults>>

callEnterMountPhase ==
  /\ pc = "constructed"
  /\ ~inst[1]._isMounting
  /\ inst' = [inst EXCEPT ![1] = __enterMountPhase(@)]
  /\ UNCHANGED <<root, pc, dom, stack, timers, travs, trace, faults>>

callExitMountPhase ==
  /\ pc = "constructed"
  /\ inst[1]._isMounting
  /\ inst' = [inst EXCEPT ![1] = __exitMountPhase(@)]
  /\ UNCHANGED <<root, pc, dom, stack, timers, travs, trace, faults>>

callMarkMounted ==
  /\ pc = "constructed"
  /\ ~inst[1]._isMounted
  /\ inst' = [inst EXCEPT ![1] = __markMounted(@)]
  /\ UNCHANGED <<root, pc, dom, stack, timers, travs, trace, faults>>

\* instance.setState(partialState): the event is the message of the thrown
\* error, or "setState" when the call returned; it carries the state after
\* the call
callSetState ==
  /\ Len(trace) < MaxCalls
  /\ \E partialState \in Partials :
       LET c == inst[1]
           c1 == IF setStateThrows(c) THEN c ELSE setState(c, partialState)
       IN /\ inst' = [inst EXCEPT ![1] = c1]
          /\ trace' = Append(trace,
               Event(IF setStateThrows(c) THEN setStateError(c) ELSE "setState",
                     1, 0, c1.state))
  /\ UNCHANGED <<root, pc, dom, stack, timers, travs, faults>>

SetStateNext ==
  \/ superReturns
  \/ superAgain
  \/ constructorReturns
  \/ callEnterMountPhase
  \/ callExitMountPhase
  \/ callMarkMounted
  \/ callSetState

SetStateSpec == SetStateInit /\ [][SetStateNext]_vars

-----------------------------------------------------------------------------
(* C11: a setState call on an instance that is neither mounting nor mounted *)
(* throws: the error "Cannot call setState() during constructor. Use        *)
(* this.state = {...} instead." when the base constructor has completed     *)
(* (as inside a subclass constructor after super(props)), the "before       *)
(* constructor completed" error when it has not; in both cases the state    *)
(* of the instance is left as it was.                                       *)

C11_SetStateOutsideMountThrows ==
  [][Len(trace') = Len(trace) + 1 /\ ~inst[1]._isMounting /\ ~inst[1]._isMounted
       => /\ trace'[Len(trace')].ev =
               IF inst[1]._constructorCalled THEN DuringConstructorError
               ELSE BeforeConstructorError
          /\ inst'[1].state = inst[1].state
          /\ trace'[Len(trace')].state = inst[1].state]_vars

\* setState threw before super(props) had returned, and threw again inside
\* the subclass constructor right after super(props)
C11_Witness ==
  /\ pc = "super"
  /\ Len(trace) = 2
  /\ trace[1].ev = BeforeConstructorError
  /\ trace[2].ev = DuringConstructorError

-----------------------------------------------------------------------------
(* C12: setState is legal at every point of the mounting window, from the   *)
(* end of construction through didMount's completion marker: a setState     *)
(* call made by beforeMount, by render() or by the synchronous body of      *)
(* didMount of an instance that createDOMNode is mounting merges the        *)
(* partial state and does not throw.                                        *)

MountingWindow == {"beforeMount", "render", "didMount"}

C12_SetStateLegalWhileMounting ==
  \A k \in 1..(Len(trace) - 1) :
    /\ trace[k].ev \in MountingWindow
    /\ trace[k + 1].inst = trace[k].inst
    /\ trace[k + 1].ev \in {"setState", "setState throws"}
    => /\ trace[k + 1].ev = "setState"
       /\ \A key \in StateKeys :
            trace[k + 1].state[key] # trace[k].state[key] =>
              trace[k + 1].state[key] \in
                {BeforeMountPartial.v, RenderPartial.w, DidMountPartial.v}

-----------------------------------------------------------------------------
(* C13: during a mount the phase that getLifecyclePhase reports for an      *)
(* AtomComponent instance only moves forward along unknown, constructed,    *)
(* mounting, mounted (in particular never from mounting back to             *)
(* constructed), and an instance whose mounting sequence has completed      *)
(* (it has been attached to its DOM node) is in phase mounted.              *)

PhaseOrder == <<"unknown", "constructed", "mounting", "mounted">>
PhaseRank(phase) == CHOOSE r \in DOMAIN PhaseOrder : PhaseOrder[r] = phase

C13_PhaseOnlyMovesForward ==
  [][/\ \A i \in DOMAIN inst :
          inst[i].guards =>
            PhaseRank(getLifecyclePhase(inst'[i]))
              >= PhaseRank(getLifecyclePhase(inst[i]))
     /\ \A k \in DOMAIN trace' :
          trace'[k].ev = "attach" /\ inst'[trace'[k].inst].guards =>
            getLifecyclePhase(inst'[trace'[k].inst]) = "mounted"]_vars

-----------------------------------------------------------------------------
(* C14: a beforeMount that throws does not stop the mount: the error is     *)
(* logged and the call of createDOMNode goes on (nothing reaches the        *)
(* caller), the next thing that happens to the instance is its render(),    *)
(* and its DOM node has been produced when render returns; an instance is   *)
(* in the mounting phase only while its executeBeforeMount is running,      *)
(* whichever way the hook went (returned, threw, not invocable).            *)

C14_BeforeMountErrorIsolated ==
  /\ \A i \in DOMAIN inst :
       inst[i]._isMounting =>
         /\ stack # <<>>
         /\ Top.inst = i
         /\ Top.pc \in {"beforeMount", "exitMountPhase"}
  /\ \A k \in DOMAIN trace :
       trace[k].ev = "beforeMount() error:" =>
         LET i == trace[k].inst
         IN /\ k < Len(trace) =>
                 trace[k + 1].ev = "render" /\ trace[k + 1].inst = i
            /\ k = Len(trace) =>
                 /\ pc = "rendering"
                 /\ Top.inst = i
                 /\ Top.pc \in {"exitMountPhase", "render"}
            /\ pc = "returned" => Happened("render", i) /\ Happened("attach", i)

\* render returned after a beforeMount threw, and an instance without an
\* invocable beforeMount was mounted too
C14_Witness ==
  /\ pc = "returned"
  /\ \E k \in DOMAIN trace : trace[k].ev = "beforeMount() error:"
  /\ \E i \in DOMAIN inst :
       /\ inst[i].guards
       /\ "beforeMount" \notin inst[i].def
       /\ Happened("attach", i)

-----------------------------------------------------------------------------
(* C15: no error coming out of beforeMount, didMount or afterMount goes     *)
(* further than the place the hook was invoked from: a synchronous throw    *)
(* never leaves the executor (the only errors that reach the caller of      *)
(* render come from a constructor or from render()), no traversal rejects,  *)
(* and a rejection of a promise returned by a hook always finds a handler   *)
(* (no unhandled rejection).                                                *)

C15_HookErrorsNeverPropagate ==
  /\ \A t \in DOMAIN travs : travs[t].status # "rejected"
  /\ \A k \in DOMAIN trace :
       /\ trace[k].ev # "unhandledrejection"
       /\ trace[k].ev = "uncaught" =>
            \E j \in 1..(k - 1) :
              /\ k - j <= 2
              /\ trace[j].inst = trace[k].inst
              /\ trace[j].ev \in {"constructor", "render"}

-----------------------------------------------------------------------------
(* C16: once executeDidMount has invoked the didMount hook of an            *)
(* AtomComponent instance, the hook is marked consumed and the instance is  *)
(* marked mounted, also when the hook threw (the error is logged, the       *)
(* mount goes on) and also while a promise the hook returned is still       *)
(* pending: the executor does not wait for it, the promise settles only     *)
(* after the synchronous mount has ended.                                   *)

C16_MountedRightAfterDidMount ==
  /\ \A i \in DOMAIN inst :
       inst[i].guards /\ Happened("didMount", i) =>
         /\ inst[i]._didMountCalled
         /\ inst[i]._isMounted
         /\ Cardinality(Idx("didMount", i)) = 1
  /\ \A k \in DOMAIN trace :
       /\ trace[k].ev = "didMount() error:" =>
            /\ inst[trace[k].inst].guards => inst[trace[k].inst]._isMounted
            /\ pc = "returned" => Happened("attach", trace[k].inst)
       /\ trace[k].ev \in {"didMount resolved", "Async didMount() error:"} =>
            \E d \in Idx("didMount", trace[k].inst) :
              \E j \in (d + 1)..(k - 1) : trace[j].ev \in {"insert", "uncaught"}

\* render has returned with one instance mounted and attached while the
\* promise of its didMount is still pending, and another one mounted and
\* attached although its didMount threw
C16_Witness ==
  /\ pc = "returned"
  /\ \E i \in DOMAIN inst :
       /\ inst[i].didMountResult = "pending"
       /\ inst[i]._isMounted
       /\ Happened("attach", i)
  /\ \E k \in DOMAIN trace :
       /\ trace[k].ev = "didMount() error:"
       /\ trace[k - 1].ev = "didMount"
       /\ inst[trace[k].inst]._isMounted

-----------------------------------------------------------------------------
(* executeAfterMount(component): the stand-alone executor, an async         *)
(* function.  Each call is a task of travs (its frame holds the position    *)
(* inside the function body); the caller calls it up to MaxCalls times on   *)
(* the same component.  The guard and the consumed-marker are methods of    *)
(* the component and may throw like the hook itself.                        *)

AfterMountInit ==
  /\ root = Comp("Leaf")
  /\ pc = "start"
  /\ dom = <<>>
  /\ \E profile \in Profiles :
       inst = <<ComponentClass("Leaf", profile, NoProps)>>
  /\ stack = <<>>
  /\ timers = <<>>
  /\ travs = <<>>
  /\ trace = <<>>
  /\ faults = 0

\* the calls of executeBeforeMount and executeDidMount made so far
SyncCalls ==
  Cardinality({k \in DOMAIN trace :
                 trace[k].ev \in {"executeBeforeMount", "executeDidMount"}})

\* the caller calls executeAfterMount(component): the body starts to run
executeAfterMount ==
  /\ stack = <<>>
  /\ Len(travs) + SyncCalls < MaxCalls
  /\ \A t \in DOMAIN travs : ~Runnable(t)
  /\ travs' = Append(travs, Task(0))
  /\ UNCHANGED <<root, pc, dom, inst, stack, timers, trace, faults>>

\* what a call of a guard or marker method does
MethodOutcomes(c) ==
  IF c.guards THEN Faulty({"throw"}, {"return", "throw"}) ELSE {"return"}

\* the names of the guard predicate and of the consumed-marker of a hook
GuardName ==
  [beforeMount |-> "__canInvokeBeforeMount",
   didMount |-> "__canInvokeDidMount",
   afterMount |-> "__canInvokeAfterMount"]
MarkerName ==
  [beforeMount |-> "__markBeforeMountCalled",
   didMount |-> "__markDidMountCalled",
   afterMount |-> "__markAfterMountCalled"]

\* What the guard predicate of a hook returns: the guard of AtomComponent
\* its own result, the guard of a test double (jest.fn) either value.
GuardResults(c, hook) ==
  IF c.cls = "Mock" THEN BOOLEAN ELSE {canInvoke(c, hook)}

\* mutant: a hook that is not defined is never invocable
canInvokeOnlyDefined(c, hook, result) ==
  hook \in c.def /\ (c.guards => result)

\* const canInvoke = typeof c.__canInvokeX === 'function'
\*   ? c.__canInvokeX() : typeof c.X === 'function'
\* where result is what the call of the guard predicate returned
canInvokeGiven(c, hook, result) ==
  IF c.guards THEN result ELSE hook \in c.def

\* the events of evaluating the guard / fallback rule: the call of the
\* guard predicate with its result when the instance has one
GuardEvents(c, hook, outcome, result, n) ==
  IF ~c.guards THEN <<>>
  ELSE <<Event(GuardName[hook] \o
                 (IF outcome = "throw" THEN " throws"
                  ELSE IF result THEN " true" ELSE " false"),
               1, n, c.state)>>

\* the events of the call of the consumed-marker when the instance has one
MarkerEvents(c, hook, outcome, n) ==
  IF ~c.guards THEN <<>>
  ELSE <<Event(MarkerName[hook] \o
                 (IF outcome = "throw" THEN " throws" ELSE ""),
               1, n, c.state)>>

\* const canInvoke = typeof c.__canInvokeAfterMount === 'function'
\*   ? c.__canInvokeAfterMount() : typeof c.afterMount === 'function'
afterMountGuard(t) ==
  /\ At(t, "entry")
  /\ \E outcome \in MethodOutcomes(inst[1]),
        result \in GuardResults(inst[1], "afterMount") :
       /\ faults' = IF outcome = "throw" THEN faults + 1 ELSE faults
       /\ trace' = trace
            \o GuardEvents(inst[1], "afterMount", outcome, result, t)
       /\ travs' = TGoto(t, [TTop(t) EXCEPT !.pc =
            IF outcome = "throw" THEN "catch"
            ELSE IF canInvokeGiven(inst[1], "afterMount", result) THEN "mark"
            ELSE "return"])
  /\ UNCHANGED <<root, pc, dom, inst, stack, timers>>

\* if (typeof c.__markAfterMountCalled === 'function')
\*   c.__markAfterMountCalled()
afterMountMark(t) ==
  /\ At(t, "mark")
  /\ \E outcome \in MethodOutcomes(inst[1]) :
       /\ faults' = IF outcome = "throw" THEN faults + 1 ELSE faults
       /\ trace' = trace \o MarkerEvents(inst[1], "afterMount", outcome, t)
       /\ inst' = IF outcome = "throw" THEN inst
                  ELSE [inst EXCEPT ![1] = markCalled(@, "afterMount")]
       /\ travs' = TGoto(t, [TTop(t) EXCEPT !.pc =
            IF outcome = "throw" THEN "catch" ELSE "call"])
  /\ UNCHANGED <<root, pc, dom, stack, timers>>

\* where control goes after const result = c.afterMount?.(): a thenable is
\* awaited, a throw is caught
AfterHook(outcome) ==
  CASE outcome = "return"  -> "return"
    [] outcome = "promise" -> "await"
    [] outcome = "throw"   -> "catch"

\* const result = component.afterMount?.(): nothing is called when the
\* instance has no afterMount
afterMountCall(t) ==
  /\ At(t, "call")
  /\ IF "afterMount" \in inst[1].def
     THEN \E outcome \in AfterMountOutcomes :
            /\ faults' = IF outcome = "throw" THEN faults + 1 ELSE faults
            /\ trace' = trace \o <<Event("afterMount", 1, t, inst[1].state)>>
                 \o (IF outcome = "promise"
                     THEN <<Event("pending", 1, t, inst[1].state)>>
                     ELSE IF outcome = "throw"
                     THEN <<Event("afterMount throws", 1, t, inst[1].state)>>
                     ELSE <<>>)
            /\ travs' = TGoto(t, [TTop(t) EXCEPT !.pc = AfterHook(outcome)])
     ELSE /\ travs' = TGoto(t, [TTop(t) EXCEPT !.pc = "return"])
          /\ UNCHANGED <<trace, faults>>
  /\ UNCHANGED <<root, pc, dom, inst, stack, timers>>

\* await result: the promise returned by afterMount settles
afterMountAwait(t) ==
  /\ At(t, "await")
  /\ \A u \in DOMAIN travs : ~Runnable(u)
  /\ \E outcome \in SettleOutcomes :
       /\ faults' = IF outcome = "reject" THEN faults + 1 ELSE faults
       /\ trace' = Log(outcome, 1, t)
       /\ travs' = TGoto(t, [TTop(t) EXCEPT !.pc =
            IF outcome = "reject" THEN "catch" ELSE "return"])
  /\ UNCHANGED <<root, pc, dom, inst, stack, timers>>

\* mutant: the error is thrown again, the promise of the call rejects
afterMountCatchRethrows(task) ==
  [task EXCEPT !.status = "rejected", !.frames = <<>>]

\* the catch block logs and does not rethrow: the function body ends
afterMountCatchBlock(task) ==
  [task EXCEPT !.frames[Len(task.frames)].pc = "return"]

\* catch (error) { console.error('afterMount() error:', error) }
afterMountCatch(t) ==
  /\ At(t, "catch")
  /\ trace' = Log("afterMount() error:", 1, t)
  /\ travs' = [travs EXCEPT ![t] = afterMountCatchBlock(@)]
  /\ UNCHANGED <<root, pc, dom, inst, stack, timers, faults>>

\* the end of the function body: the promise of the call resolves
afterMountReturn(t) ==
  /\ At(t, "return")
  /\ travs' = [travs EXCEPT ![t].status = "resolved", ![t].frames = <<>>]
  /\ trace' = Log("executeAfterMount returns", 1, t)
  /\ UNCHANGED <<root, pc, dom, inst, stack, timers, faults>>

AfterMountNext ==
  \/ executeAfterMount
  \/ \E t \in DOMAIN travs : afterMountGuard(t)
  \/ \E t \in DOMAIN travs : afterMountMark(t)
  \/ \E t \in DOMAIN travs : afterMountCall(t)
  \/ \E t \in DOMAIN travs : afterMountAwait(t)
  \/ \E t \in DOMAIN travs : afterMountCatch(t)
  \/ \E t \in DOMAIN travs : afterMountReturn(t)

AfterMountSpec == AfterMountInit /\ [][AfterMountNext]_vars

-----------------------------------------------------------------------------
(* C17: the promise returned by executeAfterMount never rejects: a throw    *)
(* of the guard, of the consumed-marker or of afterMount and a rejection    *)
(* of the promise afterMount returned are each logged under "afterMount()   *)
(* error:" before the call's promise resolves; and when afterMount          *)
(* returned a promise, the call's promise is not resolved before that       *)
(* promise has settled.                                                     *)

Failures ==
  {"__canInvokeAfterMount throws", "__markAfterMountCalled throws",
   "afterMount throws", "reject"}

\* the events of the call t
CallEvents(t) == SelectSeq(trace, LAMBDA e : e.node = t)

C17_ExecuteAfterMountAlwaysResolves ==
  \A t \in DOMAIN travs :
    LET es == CallEvents(t)
    IN /\ travs[t].status # "rejected"
       /\ \A k \in DOMAIN es :
            /\ es[k].ev \in Failures /\ k < Len(es) =>
                 es[k + 1].ev = "afterMount() error:"
            /\ es[k].ev \in Failures /\ k = Len(es) =>
                 travs[t].status = "running"
            /\ es[k].ev = "pending" /\ travs[t].status = "resolved" =>
                 k < Len(es) /\ es[k + 1].ev \in Settled

\* a call resolved after the promise of afterMount rejected, and another
\* call on the same component resolved too
C17_Witness ==
  /\ Len(travs) = 2
  /\ \A t \in DOMAIN travs : travs[t].status = "resolved"
  /\ \E k \in DOMAIN trace :
       /\ trace[k].ev = "pending"
       /\ trace[k + 1].ev = "reject"
       /\ trace[k + 2].ev = "afterMount() error:"

-----------------------------------------------------------------------------
(* C18: the props of a constructed AtomComponent instance are the explicit  *)
(* props over the class defaultProps (an explicit prop wins, a missing one  *)
(* takes its default); every validator of propTypes is run on the merged    *)
(* props before any hook; when one of them rejects its value the            *)
(* constructor throws an error whose message names the first rejected prop  *)
(* and the component, and for that instance no beforeMount, render or       *)
(* didMount is ever invoked.                                                *)

\* the props of propTypes, in order, whose validator does not return null
Rejected(cls, props) ==
  SelectSeq(PropTypes(cls),
            LAMBDA name : validator(name, PropValue(props, name)).kind # "null")

C18_PropsMergedAndValidated ==
  root.k = "class" /\ inst # <<>> /\ inst[1].guards =>
    LET given == root.props
        defaults == DefaultProps(root.type)
        c == inst[1]
        expected == [name \in DOMAIN given \cup DOMAIN defaults |->
                       IF name \in DOMAIN given THEN given[name]
                       ELSE defaults[name]]
        bad == Rejected(root.type, expected)
    IN /\ trace[1].ev = "constructor" /\ trace[1].inst = 1
       /\ bad = <<>> =>
            /\ c.thrown = <<>>
            /\ c._constructorCalled
            /\ DOMAIN c.props = DOMAIN expected
            /\ \A name \in DOMAIN expected : c.props[name] = expected[name]
       /\ bad # <<>> =>
            /\ c.thrown # <<>>
            /\ bad[1] \in Range(c.thrown)
            /\ root.type \in Range(c.thrown)
            /\ pc = "threw"
            /\ \A k \in DOMAIN trace :
                 trace[k].inst = 1 => trace[k].ev \in {"constructor", "uncaught"}

\* the label is valid, the count is not: the constructor threw an error
\* naming count and the class
C18_Witness ==
  /\ root.k = "class"
  /\ "label" \in DOMAIN root.props
  /\ root.props["label"].t = "string"
  /\ inst # <<>>
  /\ inst[1].thrown # <<>>
  /\ {"count", "WithDefaultsAndTypes"} \subseteq Range(inst[1].thrown)

-----------------------------------------------------------------------------
(* C19: an error thrown by a component's constructor or by its render()     *)
(* is caught neither by createDOMNode nor by render: the caller of render   *)
(* gets the exception, every createDOMNode call in progress is abandoned,   *)
(* nothing is appended to the container, no traversal is scheduled, and no  *)
(* further step of any mounting sequence runs.                              *)

C19_ConstructorAndRenderErrorsPropagate ==
  /\ \A i \in DOMAIN inst : inst[i].thrown # <<>> => pc = "threw"
  /\ \A k \in DOMAIN trace :
       trace[k].ev = "uncaught" =>
         /\ pc = "threw"
         /\ stack = <<>>
         /\ timers = <<>> /\ travs = <<>>
         /\ dom[Container].childNodes = <<>>
         /\ \A j \in DOMAIN trace :
              /\ trace[j].ev # "insert"
              /\ j > k => trace[j].ev \notin MountEvents \cup HookEvents
  /\ pc = "threw" => \E k \in DOMAIN trace : trace[k].ev = "uncaught"

\* the render() of a component nested in the output of another component
\* threw: the exception passed through the createDOMNode calls of both
C19_Witness ==
  /\ pc = "threw"
  /\ \E k \in DOMAIN trace :
       /\ trace[k].ev = "uncaught"
       /\ trace[k - 1].ev = "render"
       /\ \E p \in DOMAIN inst :
            /\ p # trace[k].inst
            /\ Happened("render", p)
            /\ ~Happened("attach", p)

-----------------------------------------------------------------------------
(* C20: render empties the container before anything is appended to it,     *)
(* and the step on which render returns leaves in the container exactly     *)
(* what createDOMNode returned for this call (the node itself, or the       *)
(* children of the returned fragment, in order), none of the earlier        *)
(* content; on that step the traversal of the returned node is put on the   *)
(* timer queue and no traversal has started.                                *)

C20_RenderReplacesContent ==
  [][/\ pc' = "rendering" => dom'[Container].childNodes = <<>>
     /\ pc = "rendering" /\ pc' = "returned" =>
          LET domNode == Top.ret
          IN /\ dom'[Container].childNodes =
                  IF dom[domNode].kind = "fragment"
                  THEN dom[domNode].childNodes ELSE <<domNode>>
             /\ \A n \in Range(dom'[Container].childNodes) :
                  n \in Created /\ dom'[n].parentNode = Container
             /\ \A n \in DOMAIN dom \ Created :
                  n # Container => dom'[n].parentNode = 0
             /\ timers' = <<domNode>>
             /\ travs' = <<>>
             /\ \A k \in DOMAIN trace' : trace'[k].ev # "afterMount"]_vars

\* render has returned for an array of children: the container holds the
\* created nodes, the old text node is detached, the timer is pending
C20_Witness ==
  /\ pc = "returned"
  /\ Len(dom[Container].childNodes) >= 2
  /\ dom[2].parentNode = 0
  /\ timers # <<>>
  /\ travs = <<>>


-----------------------------------------------------------------------------
(* Element creation: createElement and the JSX runtime build the VNode     *)
(* that render() materializes.  The specification ElementSpec starts from  *)
(* a tree written as a literal, or from a call of createElement, jsx, jsxs *)
(* or jsxDEV; the call is evaluated first and its VNode is rendered.       *)

__source ==
  <<"_", "_", "s", "o", "u", "r", "c", "e">>
__self == <<"_", "_", "s", "e", "l", "f">>

\* a props object with the given entries, as an argument
Props(entries) == [t |-> "object", entries |-> entries]

\* {...props, [name]: value}: an entry of that name keeps its place
Set(props, name, value) ==
  IF \E i \in DOMAIN props : props[i].key = name
  THEN [i \in DOMAIN props |->
          IF props[i].key = name THEN Entry(name, value) ELSE props[i]]
  ELSE Append(props, Entry(name, value))

\* collectChildren: enqueue(c) skips null, undefined and false, descends
\* into arrays and pushes everything else
RECURSIVE enqueue(_, _)
enqueue(out, c) ==
  IF c.k \in {"null", "undefined", "false"} THEN out
  ELSE IF c.k = "array"
  THEN IF c.items = <<>> THEN out
       ELSE enqueue(enqueue(out, Head(c.items)), Arr(Tail(c.items)))
  ELSE Append(out, c)

\* mutant: nested arrays are pushed as they are
collectChildrenShallow(c) ==
  IF c.k \in {"null", "undefined", "false"} THEN <<>>
  ELSE IF c.k = "array"
  THEN SelectSeq(c.items, LAMBDA x : x.k \notin {"null", "undefined", "false"})
  ELSE <<c>>

collectChildren(c) == enqueue(<<>>, c)

\* mutant: the variadic children win over props.children
normalizeChildrenRestFirst(input, rest) ==
  IF Len(rest) # 0 THEN Arr(rest) ELSE input

\* normalizeChildren(input, rest)
normalizeChildren(input, rest) ==
  IF input.k # "undefined" THEN input
  ELSE IF Len(rest) = 0 THEN Undefined ELSE Arr(rest)

\* createElement(type, rawProps, ...spreadChildren) of core/createElement
coreCreateElement(type, rawProps, spreadChildren) ==
  LET base == IF rawProps.t \in {"null", "undefined"} THEN <<>>
              ELSE rawProps.entries
      rest == Without(base, {KEY, CHILDREN})
      finalChildren ==
        normalizeChildren(Get(base, CHILDREN, Undefined), spreadChildren)
      withKey == Append(rest, Entry(KEY, Get(base, KEY, Undef)))
  IN VNode(type,
           IF finalChildren.k = "undefined" THEN withKey
           ELSE Append(withKey, Entry(CHILDREN, finalChildren)))

\* jsx(type, props, key)
jsx(type, props, k) ==
  LET src == IF props.t \in {"null", "undefined"} THEN <<>> ELSE props.entries
      rest == Without(src, {CHILDREN})
      nextProps == IF k.t = "undefined" THEN rest ELSE Set(rest, KEY, k)
      kids == Get(src, CHILDREN, Undefined)
  IN IF kids.k = "undefined"
     THEN coreCreateElement(type, Props(nextProps), <<>>)
     ELSE coreCreateElement(type, Props(nextProps), collectChildren(kids))

\* jsxs(type, props, key): the same statements as jsx
jsxs(type, props, k) == jsx(type, props, k)

\* jsxDEV(type, props, key, _isStaticChildren, source, self), called without
\* source and self
jsxDEV(type, props, k) ==
  LET src == IF props.t \in {"null", "undefined"} THEN <<>> ELSE props.entries
      withKey == IF k.t = "undefined" THEN src ELSE Set(src, KEY, k)
      baseWithDev == Set(Set(withKey, __source, Undef), __self, Undef)
      kids == Get(src, CHILDREN, Undefined)
  IN IF kids.k = "undefined"
     THEN coreCreateElement(type, Props(baseWithDev), <<>>)
     ELSE coreCreateElement(type, Props(Without(baseWithDev, {CHILDREN})),
                            collectChildren(kids))

\* a call of fn in {"createElement", "jsx", "jsxs", "jsxDEV"}
Invoke(fn, type, props, k, rest) ==
  [k |-> "call", fn |-> fn, type |-> type, props |-> props, key |-> k,
   rest |-> rest]

\* the children given to the JSX calls: the nested list of the jsxs test,
\* the list of the jsx test, a list with true, empty and nested empty
\* lists, a single child, and lists holding elements
Nested ==
  Arr(<<Null, False, Text("A"),
        Arr(<<Text("B"), Arr(<<Text("C"), Null>>), False>>),
        Undefined, Text("D")>>)

JsxChildren ==
  { Nested,
    Arr(<<Text("Hello"), Null, False, Arr(<<Text("World"), Undefined>>)>>),
    Arr(<<True, Arr(<<>>), Arr(<<Arr(<<False>>), Number(0)>>), Text("")>>),
    Arr(<<>>),
    Arr(<<Arr(<<Null, Arr(<<Undefined>>)>>), False>>),
    Text("Hello"),
    Null,
    False,
    Arr(<<El("li", Text("One")), Arr(<<El("li", Text("Two")), Obj>>)>>) }

\* the props objects given to createElement
ElementProps ==
  { NullProp, Undef, Props(<<>>),
    Props(<<Entry(ID, Str("x"))>>),
    Props(<<Entry(KEY, Str("k1")), Entry(ID, Str("x"))>>),
    Props(<<Entry(CHILDREN, Text("from props"))>>),
    Props(<<Entry(CHILDREN, Null), Entry(CLASS, Str("foo"))>>),
    Props(<<Entry(CHILDREN, Undefined), Entry(KEY, Num(7))>>) }

\* the variadic children given to createElement
SpreadChildren ==
  { <<>>, <<Text("Hello")>>, <<Text("a"), El("b", Undefined), Text("c")>> }

Calls ==
  {Invoke(fn, Tag("ul"), Props(<<Entry(CHILDREN, c)>>), Undef, <<>>) :
     fn \in {"jsx", "jsxs", "jsxDEV"}, c \in JsxChildren}
  \cup {Invoke("jsxs", Tag("li"),
               Props(<<Entry(ID, Str("x")), Entry(CHILDREN, Arr(<<Text("N")>>))>>),
               Str("list-key"), <<>>),
        Invoke("jsx", Tag("section"), Props(<<Entry(ID, Str("no-children"))>>),
               Undef, <<>>),
        Invoke("jsxDEV", Tag("li"), Undef, Str("dev-key"), <<>>)}
  \cup {Invoke("createElement", Tag("div"), props, Undef, rest) :
          props \in ElementProps, rest \in SpreadChildren}
  \cup {Invoke("jsxs", Fragment,
               Props(<<Entry(CHILDREN,
                             Arr(<<El("h1", Text("a")), El("p", Text("b"))>>))>>),
               Undef, <<>>),
        Invoke("jsx", Fragment, Props(<<Entry(CHILDREN, Text("only"))>>),
               Undef, <<>>),
        Invoke("jsx", Tag("div"),
               Props(<<Entry(CHILDREN,
                             VNode(Fragment,
                                   <<Entry(CHILDREN,
                                           Arr(<<Text("x"),
                                                 El("b", Undefined)>>))>>))>>),
               Undef, <<>>)}

\* the trees written as literals: every shape createDOMNode tells apart,
\* and intrinsic VNodes with props of every kind
Literals ==
  { Null, Undefined, True, False, Text("One"), Text(""), Number(42),
    Number(0), Obj, Arr(<<>>),
    Arr(<<Text("One"), Text("Two"), Text("Three")>>),
    Arr(<<Null, Number(7), Arr(<<Text("b"), True>>), Arr(<<>>), Obj>>),
    El("ul", Arr(<<El("li", Text("Item 1")), El("li", Text("Item 2"))>>)),
    El("div", Undefined),
    El("p", Null),
    El("div", Arr(<<Arr(<<Text("x"), False>>), El("i", Arr(<<>>))>>)),
    VNode(Tag("div"), <<>>),
    VNode(Tag("div"), <<Entry(ID, Str("test-div")), Entry(CLASS, Str("foo"))>>),
    VNode(Tag("button"),
          <<Entry(ON_CLICK, Fn("handleClick", FALSE)),
            Entry(CHILDREN, Text("Click Me"))>>),
    VNode(Tag("div"),
          <<Entry(CHILDREN, Text("Should be skipped")), Entry(ID, Str("test"))>>),
    VNode(Tag("input"),
          <<Entry(REF, Fn("refCallback", FALSE)), Entry(ID, Str("test")),
            Entry(ON_INPUT, Fn("onInput", FALSE)),
            Entry(ON_MOUSE_OVER, Fn("mouseOverHandler", FALSE)),
            Entry(MAX_LENGTH, Num(100)), Entry(DISABLED, Bool(FALSE)),
            Entry(DATA_TESTID, Str("input-field"))>>),
    VNode(Tag("input"),
          <<Entry(ID, Str("before")), Entry(REF, Fn("refCallback", TRUE)),
            Entry(CLASS, Str("after")), Entry(ON_CLICK, Fn("onClick", FALSE)),
            Entry(CHILDREN, Text("kept"))>>),
    VNode(Tag("span"),
          <<Entry(REF, RefObject), Entry(ON_CLICK, Str("alert(1)")),
            Entry(ONCE, Fn("once", FALSE)), Entry(KEY, Undef),
            Entry(CLASS, NullProp)>>),
    VNode(Tag("span"), <<Entry(ONCE, Str("yes")), Entry(MAX_LENGTH, Num(0))>>) }

ElementInit ==
  /\ root \in Calls \cup Literals
  /\ pc = IF root.k = "call" THEN "input" ELSE "start"
  /\ dom = <<NewNode("element", "container")>>
  /\ inst = <<>>
  /\ stack = <<>>
  /\ timers = <<>>
  /\ travs = <<>>
  /\ trace = <<>>
  /\ faults = 0

\* the call is evaluated; its VNode is the argument of render()
call ==
  /\ pc = "input"
  /\ LET vnode ==
           CASE root.fn = "createElement" ->
                  coreCreateElement(root.type, root.props, root.rest)
             [] root.fn = "jsx" -> jsx(root.type, root.props, root.key)
             [] root.fn = "jsxs" -> jsxs(root.type, root.props, root.key)
             [] root.fn = "jsxDEV" -> jsxDEV(root.type, root.props, root.key)
     IN stack' = <<[Frame(vnode) EXCEPT !.fn = "caller", !.pc = "render"]>>
  /\ pc' = "created"
  /\ UNCHANGED <<root, dom, inst, timers, travs, trace, faults>>

ElementNext ==
  \/ call
  \/ render
  \/ createText
  \/ createFragment
  \/ createIntrinsic
  \/ forChild
  \/ appendCreated
  \/ renderAppend

ElementSpec == ElementInit /\ [][ElementNext]_vars


-----------------------------------------------------------------------------
(* C21.  createDOMNode returns one node for every input: an empty text node *)
(* for null, undefined, true and false, a text node holding the string form *)
(* of a string or number, a fragment holding the materialization of each    *)
(* element of an array in order, an element of the tag of an intrinsic      *)
(* VNode with its children appended in order, and an empty text node for    *)
(* an object of any other shape; no input shape makes it throw.             *)

\* the tree below DOM node n: kind, name (tag or text) and children
RECURSIVE Shape(_, _)
Shape(d, n) ==
  [kind |-> d[n].kind, name |-> d[n].name,
   children |-> [i \in DOMAIN d[n].childNodes |->
                   Shape(d, d[n].childNodes[i])]]

Leaf(kind, name) == [kind |-> kind, name |-> name, children |-> <<>>]

\* The node the table of shapes gives for a value, and the nodes that a
\* list of values adds to a parent: a fragment adds its children.
RECURSIVE NodeFor(_), Appended(_)
NodeFor(el) ==
  CASE el.k \in {"null", "undefined", "true", "false"} -> Leaf("text", "")
    [] el.k = "text" -> Leaf("text", el.v)
    [] el.k = "number" -> Leaf("text", ToString(el.n))
    [] el.k = "array" ->
         [kind |-> "fragment", name |-> "", children |-> Appended(el.items)]
    [] el.k = "intrinsic" ->
         [kind |-> "element", name |-> el.type,
          children |-> Appended(ChildList(Get(el.props, CHILDREN, Undefined)))]
    [] OTHER -> Leaf("text", "")
Appended(items) ==
  IF items = <<>> THEN <<>>
  ELSE LET first == NodeFor(Head(items))
       IN (IF first.kind = "fragment" THEN first.children ELSE <<first>>)
          \o Appended(Tail(items))

\* the value whose node the running frame has just received
Received ==
  IF Top.fn = "render" THEN Top.el ELSE Top.kids[Top.idx]

C21_CreateDOMNodeShapes ==
  /\ pc # "threw"
  /\ stack # <<>> /\ Top.pc = "appendChild" /\ Top.ret # 0
       => Shape(dom, Top.ret) = NodeFor(Received)

\* the array of a null, a number, a nested array, an empty array and an
\* unknown object has been materialized as a fragment of five text nodes
C21_Witness ==
  /\ Running("render", "appendChild")
  /\ root = Arr(<<Null, Number(7), Arr(<<Text("b"), True>>), Arr(<<>>), Obj>>)
  /\ dom[Top.ret].kind = "fragment"
  /\ [i \in 1..5 |-> dom[dom[Top.ret].childNodes[i]].name]
       = <<"", "7", "b", "", "">>


-----------------------------------------------------------------------------
(* C22.  The children given to jsx, jsxs and jsxDEV are flattened: every    *)
(* null, undefined and false at any depth is removed, nested arrays are    *)
(* flattened, the surviving children keep their left-to-right order, and   *)
(* a surviving true materializes as an empty text node; so the list        *)
(* [null, false, 'A', ['B', ['C', null], false], undefined, 'D'] given to  *)
(* jsxs materializes to the four text children A, B, C, D.                 *)

\* every leaf of a nested list, from left to right
RECURSIVE Leaves(_)
Leaves(c) ==
  IF c.k # "array" THEN <<c>>
  ELSE IF c.items = <<>> THEN <<>>
  ELSE Leaves(Head(c.items)) \o Leaves(Arr(Tail(c.items)))

Survivors(c) ==
  SelectSeq(Leaves(c), LAMBDA x : x.k \notin {"null", "undefined", "false"})

\* the call under way is a JSX call for a tag; the children it was given
JsxCall ==
  root.k = "call" /\ root.fn \in {"jsx", "jsxs", "jsxDEV"}
    /\ root.type.typeof = "string"
GivenChildren ==
  IF root.props.t = "object" THEN Get(root.props.entries, CHILDREN, Undefined)
  ELSE Undefined

C22_ChildrenFlattened ==
  JsxCall =>
    LET kept == Survivors(GivenChildren)
    IN /\ pc = "created" =>
            Get(Top.el.props, CHILDREN, Undefined)
              = IF kept = <<>> THEN Undefined ELSE Arr(kept)
       /\ pc = "returned" =>
            Shape(dom, dom[Container].childNodes[1]).children
              = [i \in DOMAIN kept |-> NodeFor(kept[i])]

\* the list of the jsxs test has been rendered as the text children A, B,
\* C, D of the ul element
C22_Witness ==
  /\ pc = "returned"
  /\ root = Invoke("jsxs", Tag("ul"), Props(<<Entry(CHILDREN, Nested)>>),
                   Undef, <<>>)
  /\ LET ul == dom[Container].childNodes[1]
     IN /\ dom[ul].name = "ul"
        /\ [i \in DOMAIN dom[ul].childNodes |->
              <<dom[dom[ul].childNodes[i]].kind,
                dom[dom[ul].childNodes[i]].name>>]
             = <<<<"text", "A">>, <<"text", "B">>, <<"text", "C">>,
                 <<"text", "D">>>>


-----------------------------------------------------------------------------
(* C23.  createElement(type, props, ...children): a children entry of      *)
(* props that is not undefined is used as it is and the variadic children  *)
(* are ignored; otherwise no variadic child leaves props.children absent   *)
(* and one or more give the array of them in order; the key of props is    *)
(* kept in the props of the VNode and every other prop is copied unchanged.*)

\* the entries of the props argument of the call ({} for null, undefined)
GivenEntries ==
  IF root.props.t = "object" THEN root.props.entries ELSE <<>>

Other(props) == Range(Without(props, {KEY, CHILDREN}))

C23_CreateElementChildrenAndProps ==
  pc = "created" /\ root.fn = "createElement" =>
    LET given == Get(GivenEntries, CHILDREN, Undefined)
        made == Top.el.props
    IN /\ Top.el.type = root.type.name
       /\ given.k # "undefined" => Get(made, CHILDREN, Undefined) = given
       /\ given.k = "undefined" /\ root.rest = <<>> =>
            \A i \in DOMAIN made : made[i].key # CHILDREN
       /\ given.k = "undefined" /\ root.rest # <<>> =>
            Get(made, CHILDREN, Undefined) = Arr(root.rest)
       /\ Get(made, KEY, Undef) = Get(GivenEntries, KEY, Undef)
       /\ Other(made) = Other(GivenEntries)

\* createElement was given children in props and a variadic child: the
\* VNode holds the children of props
C23_Witness ==
  /\ pc = "created"
  /\ root = Invoke("createElement", Tag("div"),
                   Props(<<Entry(CHILDREN, Text("from props"))>>), Undef,
                   <<Text("Hello")>>)
  /\ Get(Top.el.props, CHILDREN, Undefined) = Text("from props")


-----------------------------------------------------------------------------
(* C24.  When props are applied to an intrinsic element: a function-valued *)
(* ref is invoked exactly once with the element and is not set as an       *)
(* attribute; a function-valued prop whose name starts with 'on' is        *)
(* registered exactly once as a listener for the lower-cased rest of the   *)
(* name and is not set as an attribute; children is skipped; every other   *)
(* prop is set as an attribute holding String(value).                      *)

\* element.getAttribute(name): the values of the attributes of that name
getAttribute(n, name) ==
  {a.value : a \in {b \in Range(dom[n].attributes) :
                      b.name = toLowerCase(name)}}

\* how often the listener is registered on node n for the event type
Registered(n, type, listener) ==
  Cardinality({i \in DOMAIN dom[n].listeners :
                 dom[n].listeners[i]
                   = [type |-> type, listener |-> listener]})

IsRef(e) == e.key = REF /\ e.value.t = "function"
IsListener(e) ==
  Len(e.key) >= 2 /\ e.key[1] = "o" /\ e.key[2] = "n"
    /\ e.value.t = "function"

\* the createDOMNode calls that have made their element and applied its props
AppliedFrames ==
  {i \in DOMAIN stack :
     /\ stack[i].fn = "createDOMNode"
     /\ stack[i].el.k = "intrinsic"
     /\ stack[i].node # 0}

C24_PropsAppliedToElement ==
  \A i \in AppliedFrames :
    LET n == stack[i].node
        props == stack[i].el.props
    IN /\ \A e \in Range(props) :
            IF e.key = CHILDREN THEN getAttribute(n, e.key) = {}
            ELSE IF IsRef(e)
            THEN /\ Cardinality(EventsOn("ref", n)) = 1
                 /\ getAttribute(n, e.key) = {}
            ELSE IF IsListener(e)
            THEN /\ Registered(n, toLowerCase(SubSeq(e.key, 3, Len(e.key))),
                               e.value) = 1
                 /\ getAttribute(n, e.key) = {}
            ELSE getAttribute(n, e.key) = {String(e.value)}
       /\ Len(dom[n].listeners)
            = Cardinality({e \in Range(props) :
                             e.key # CHILDREN /\ ~IsRef(e) /\ IsListener(e)})
       /\ (\A e \in Range(props) : e.key = CHILDREN \/ ~IsRef(e))
            => EventsOn("ref", n) = {}

\* the input element of the mixed props: the ref was called, the handlers
\* are registered for input and mouseover, the other props are attributes
C24_Witness ==
  \E i \in AppliedFrames :
    LET n == stack[i].node
    IN /\ dom[n].name = "input"
       /\ Cardinality(EventsOn("ref", n)) = 1
       /\ ~ \E k \in DOMAIN trace : trace[k].ev = "Ref callback error:"
       /\ Registered(n, <<"m", "o", "u", "s", "e", "o", "v", "e", "r">>,
                     Fn("mouseOverHandler", FALSE)) = 1
       /\ Registered(n, <<"i", "n", "p", "u", "t">>, Fn("onInput", FALSE)) = 1
       /\ getAttribute(n, MAX_LENGTH) = {"100"}
       /\ getAttribute(n, DISABLED) = {"false"}
       /\ getAttribute(n, ID) = {"test"}
       /\ getAttribute(n, REF) = {}


-----------------------------------------------------------------------------
(* C25.  A VNode whose type is Fragment is materialized as its children    *)
(* without a wrapper element: every child of the fragment appears in the   *)
(* produced DOM.                                                           *)
(* Violated: createDOMNode has no branch for a function type without       *)
(* render(), so the VNode falls through to the empty text node.            *)

C25_FragmentMaterializesChildren ==
  pc = "returned" /\ root.k = "call" /\ root.type = Fragment =>
    LET kept == Survivors(GivenChildren)
    IN [i \in DOMAIN dom[Container].childNodes |->
          Shape(dom, dom[Container].childNodes[i])]
         = [i \in DOMAIN kept |-> NodeFor(kept[i])]


-----------------------------------------------------------------------------
(* The three executors called directly on one component, as the lifecycle  *)
(* tests do: executeBeforeMount and executeDidMount run synchronously on   *)
(* the call stack, executeAfterMount as an async task.  The component is   *)
(* an AtomComponent subclass, a plain object with hooks, or a test double  *)
(* whose guards return either value; a guard or marker may throw.  The     *)
(* hook bodies here return or throw.                                       *)

ExecutorName ==
  [beforeMount |-> "executeBeforeMount", didMount |-> "executeDidMount",
   afterMount |-> "executeAfterMount"]

ExecutorProfiles ==
  {[def |-> d, guards |-> g] : d \in SUBSET Hooks, g \in BOOLEAN}

ExecutorInit ==
  /\ root = Comp("Leaf")
  /\ pc = "start"
  /\ dom = <<>>
  /\ \E cls \in {"Leaf", "Mock"}, profile \in ExecutorProfiles :
       /\ cls = "Mock" => profile.guards
       /\ inst = <<ComponentClass(cls, profile, NoProps)>>
  /\ stack = <<>>
  /\ timers = <<>>
  /\ travs = <<>>
  /\ trace = <<>>
  /\ faults = 0

\* the caller calls executeBeforeMount(component) or
\* executeDidMount(component)
callExecutor(hook) ==
  /\ stack = <<>>
  /\ \A t \in DOMAIN travs : ~Runnable(t)
  /\ Len(travs) + SyncCalls < MaxCalls
  /\ LET n == MaxCalls + 1 + SyncCalls
     IN /\ stack' = <<[Frame(Null) EXCEPT
                         !.fn = ExecutorName[hook],
                         !.pc = IF hook = "beforeMount" THEN "enter"
                                ELSE "guard",
                         !.node = n, !.inst = 1]>>
        /\ trace' = Log(ExecutorName[hook], 1, n)
  /\ UNCHANGED <<root, pc, dom, inst, timers, travs, faults>>

\* if (typeof c.__enterMountPhase === 'function') c.__enterMountPhase()
\* before the try block: an error leaves executeBeforeMount
enterPhase ==
  /\ Running("executeBeforeMount", "enter")
  /\ \E outcome \in MethodOutcomes(inst[1]) :
       /\ faults' = IF outcome = "throw" THEN faults + 1 ELSE faults
       /\ inst' = IF outcome = "throw" \/ ~inst[1].guards THEN inst
                  ELSE [inst EXCEPT ![1] = __enterMountPhase(@)]
       /\ trace' = IF outcome = "throw"
                   THEN Log("__enterMountPhase throws", 1, Top.node)
                   ELSE trace
       /\ stack' = Goto([Top EXCEPT !.pc =
            IF outcome = "throw" THEN "throw" ELSE "guard"])
  /\ UNCHANGED <<root, pc, dom, timers, travs>>

\* where an executor goes on when the hook is not invocable, and after
\* the hook call returned
Skipped(hook) == IF hook = "beforeMount" THEN "finally" ELSE "return"
Returned(hook) == IF hook = "beforeMount" THEN "finally" ELSE "markMounted"

\* the guard / fallback rule of executeBeforeMount and executeDidMount
guard(hook) ==
  /\ Running(ExecutorName[hook], "guard")
  /\ \E outcome \in MethodOutcomes(inst[1]),
        result \in GuardResults(inst[1], hook) :
       /\ faults' = IF outcome = "throw" THEN faults + 1 ELSE faults
       /\ trace' = trace
            \o GuardEvents(inst[1], hook, outcome, result, Top.node)
       /\ stack' = Goto([Top EXCEPT !.pc =
            IF outcome = "throw" THEN "catch"
            ELSE IF canInvokeGiven(inst[1], hook, result) THEN "mark"
            ELSE Skipped(hook)])
  /\ UNCHANGED <<root, pc, dom, inst, timers, travs>>

\* if (typeof c.__markXCalled === 'function') c.__markXCalled()
mark(hook) ==
  /\ Running(ExecutorName[hook], "mark")
  /\ \E outcome \in MethodOutcomes(inst[1]) :
       /\ faults' = IF outcome = "throw" THEN faults + 1 ELSE faults
       /\ trace' = trace \o MarkerEvents(inst[1], hook, outcome, Top.node)
       /\ inst' = IF outcome = "throw" THEN inst
                  ELSE [inst EXCEPT ![1] = markCalled(@, hook)]
       /\ stack' = Goto([Top EXCEPT !.pc =
            IF outcome = "throw" THEN "catch" ELSE "call"])
  /\ UNCHANGED <<root, pc, dom, timers, travs>>

\* component.beforeMount?.() / component.didMount?.(): nothing is called
\* when the instance has no such hook
invoke(hook) ==
  /\ Running(ExecutorName[hook], "call")
  /\ IF hook \in inst[1].def
     THEN \E body \in Faulty({"throw"}, {"return", "throw"}) :
            /\ faults' = IF body = "throw" THEN faults + 1 ELSE faults
            /\ trace' = trace \o <<Event(hook, 1, Top.node, inst[1].state)>>
                 \o (IF body = "throw"
                     THEN <<Event(hook \o " throws", 1, Top.node,
                                  inst[1].state)>>
                     ELSE <<>>)
            /\ stack' = Goto([Top EXCEPT !.pc =
                 IF body = "throw" THEN "catch" ELSE Returned(hook)])
     ELSE /\ stack' = Goto([Top EXCEPT !.pc = Returned(hook)])
          /\ UNCHANGED <<trace, faults>>
  /\ UNCHANGED <<root, pc, dom, inst, timers, travs>>

\* the events and the effect of a call of component.__markMounted()
MountedEvents(c, outcome, n) ==
  IF ~c.guards THEN <<>>
  ELSE <<Event(IF outcome = "throw" THEN "__markMounted throws"
               ELSE "__markMounted", 1, n, c.state)>>
Mounted(c, outcome) ==
  IF c.guards /\ outcome = "return" THEN __markMounted(c) ELSE c

\* if (typeof c.__markMounted === 'function') c.__markMounted()
\* after the hook call returned; ret records that the marker threw
markMounted ==
  /\ Running("executeDidMount", "markMounted")
  /\ \E outcome \in MethodOutcomes(inst[1]) :
       /\ faults' = IF outcome = "throw" THEN faults + 1 ELSE faults
       /\ trace' = trace \o MountedEvents(inst[1], outcome, Top.node)
       /\ inst' = [inst EXCEPT ![1] = Mounted(@, outcome)]
       /\ stack' = Goto(IF outcome = "throw"
                        THEN [Top EXCEPT !.pc = "catch", !.ret = 1]
                        ELSE [Top EXCEPT !.pc = "return"])
  /\ UNCHANGED <<root, pc, dom, timers, travs>>

\* mutant: an error of the mounted-marker leaves the catch block
afterMarkErrorRethrown(outcome) ==
  IF outcome = "throw" THEN "throw" ELSE "return"

\* the inner try / catch around __markMounted() in the catch block of
\* executeDidMount: the error is logged and the function body ends
afterMarkError(outcome) == "return"

\* catch (error) { console.error('beforeMount() error:', error) } and
\* catch (error) { console.error('didMount() error:', error);
\*   try { c.__markMounted() } catch (markError) { console.error(...) } }
\* A mounted-marker that threw in the try block may throw again.
caught(hook) ==
  /\ Running(ExecutorName[hook], "catch")
  /\ IF hook = "beforeMount"
     THEN /\ trace' = Log("beforeMount() error:", 1, Top.node)
          /\ stack' = Goto([Top EXCEPT !.pc = "finally"])
          /\ UNCHANGED <<inst, faults>>
     ELSE \E outcome \in MethodOutcomes(inst[1])
                           \cup (IF Top.ret = 1 THEN {"throw"} ELSE {}) :
            /\ faults' = IF outcome = "throw" THEN faults + 1 ELSE faults
            /\ trace' = trace
                 \o <<Event("didMount() error:", 1, Top.node, inst[1].state)>>
                 \o MountedEvents(inst[1], outcome, Top.node)
                 \o (IF outcome = "throw"
                     THEN <<Event("markError error:", 1, Top.node,
                                  inst[1].state)>>
                     ELSE <<>>)
            /\ inst' = [inst EXCEPT ![1] = Mounted(@, outcome)]
            /\ stack' = Goto([Top EXCEPT !.pc = afterMarkError(outcome)])
  /\ UNCHANGED <<root, pc, dom, timers, travs>>

\* finally { if (typeof c.__exitMountPhase === 'function')
\*   c.__exitMountPhase() }: an error leaves executeBeforeMount
exitPhase ==
  /\ Running("executeBeforeMount", "finally")
  /\ \E outcome \in MethodOutcomes(inst[1]) :
       /\ faults' = IF outcome = "throw" THEN faults + 1 ELSE faults
       /\ inst' = IF outcome = "throw" \/ ~inst[1].guards THEN inst
                  ELSE [inst EXCEPT ![1] = __exitMountPhase(@)]
       /\ trace' = IF outcome = "throw"
                   THEN Log("__exitMountPhase throws", 1, Top.node)
                   ELSE trace
       /\ stack' = Goto([Top EXCEPT !.pc =
            IF outcome = "throw" THEN "throw" ELSE "return"])
  /\ UNCHANGED <<root, pc, dom, timers, travs>>

\* the executor returns to its caller
executorReturns ==
  /\ stack # <<>>
  /\ Top.fn \in {"executeBeforeMount", "executeDidMount"}
  /\ Top.pc = "return"
  /\ trace' = Log(Top.fn \o " returns", 1, Top.node)
  /\ stack' = SubSeq(stack, 1, Len(stack) - 1)
  /\ UNCHANGED <<root, pc, dom, inst, timers, travs, faults>>

\* an error leaves the executor: executeMountingLifecycle, when it is the
\* caller, has no try block and is left too; the test catches the error
executorThrows ==
  /\ stack # <<>>
  /\ Top.fn \in {"executeBeforeMount", "executeDidMount"}
  /\ Top.pc = "throw"
  /\ trace' = Log(Top.fn \o " throws", 1, Top.node)
       \o (IF Len(stack) > 1
           THEN <<Event("executeMountingLifecycle throws", 1, 0, EmptyState)>>
           ELSE <<>>)
  /\ stack' = <<>>
  /\ UNCHANGED <<root, pc, dom, inst, timers, travs, faults>>

ExecutorNext ==
  \/ \E hook \in {"beforeMount", "didMount"} : callExecutor(hook)
  \/ enterPhase
  \/ \E hook \in {"beforeMount", "didMount"} : guard(hook)
  \/ \E hook \in {"beforeMount", "didMount"} : mark(hook)
  \/ \E hook \in {"beforeMount", "didMount"} : invoke(hook)
  \/ markMounted
  \/ \E hook \in {"beforeMount", "didMount"} : caught(hook)
  \/ exitPhase
  \/ executorReturns
  \/ executorThrows
  \/ AfterMountNext

ExecutorSpec == ExecutorInit /\ [][ExecutorNext]_vars


-----------------------------------------------------------------------------
(* C26.  In each of the three executors: when the instance has a guard     *)
(* predicate its result alone decides whether the hook is invocable,       *)
(* otherwise the hook is invocable exactly when it is defined; when        *)
(* invocable, the consumed-marker is called before the hook; when not      *)
(* invocable, neither the marker nor the hook is called and                *)
(* executeDidMount does not mark the instance mounted.                     *)

\* the calls made of the executor of a hook, and those that have returned
CallsOf(hook) ==
  IF hook = "afterMount" THEN DOMAIN travs
  ELSE {trace[k].node : k \in {j \in DOMAIN trace :
                                 trace[j].ev = ExecutorName[hook]}}
Finished(hook, n) ==
  \E k \in DOMAIN trace :
    trace[k].node = n /\ trace[k].ev = ExecutorName[hook] \o " returns"

\* what the executor of a hook calls on the instance once it is invocable
AfterGuard(hook) ==
  {MarkerName[hook], MarkerName[hook] \o " throws", hook,
   "__markMounted", "__markMounted throws"}

-----------------------------------------------------------------------------
(* C27.  For an AtomComponent instance, running the same executor any      *)
(* number of times invokes its hook at most once in total, also when the   *)
(* first invocation threw or rejected: the consumed flag is set before the *)
(* hook is called and is never reset.                                      *)

Consumed(c, hook) ==
  CASE hook = "beforeMount" -> c._beforeMountCalled
    [] hook = "didMount"    -> c._didMountCalled
    [] hook = "afterMount"  -> c._afterMountCalled

Invocations(hook) == {k \in DOMAIN trace : trace[k].ev = hook}

-----------------------------------------------------------------------------
(* C28.  An error thrown by a guard predicate or by a consumed-marker is   *)
(* handled like a hook error: executeDidMount and executeAfterMount do not *)
(* throw or reject, the hook is not called, and executeDidMount still      *)
(* calls the mounted-marker; an error thrown by the mounted-marker itself  *)
(* is swallowed too.                                                       *)

C28_GuardAndMarkerErrorsHandled ==
  /\ \A k \in DOMAIN trace : trace[k].ev # "executeDidMount throws"
  /\ \A t \in DOMAIN travs : travs[t].status # "rejected"
  /\ \A hook \in {"didMount", "afterMount"} : \A n \in CallsOf(hook) :
       LET es == CallEvents(n)
       IN \A k \in DOMAIN es :
            /\ es[k].ev \in {GuardName[hook] \o " throws",
                             MarkerName[hook] \o " throws"} =>
                 /\ k < Len(es) => es[k + 1].ev = hook \o "() error:"
                 /\ \A j \in DOMAIN es : es[j].ev # hook
            /\ es[k].ev = "didMount() error:" /\ k < Len(es)
                 /\ inst[1].guards =>
                 es[k + 1].ev \in {"__markMounted", "__markMounted throws"}
            /\ es[k].ev = "__markMounted throws" /\ k < Len(es) =>
                 es[k + 1].ev \in {"didMount() error:", "markError error:"}
            /\ es[k].ev = "markError error:" /\ k < Len(es) =>
                 es[k + 1].ev = "executeDidMount returns"

\* the guard of didMount threw: the error was logged, the mounted-marker
\* was called and executeDidMount returned
C28_Witness ==
  \E k \in DOMAIN trace :
    /\ k + 3 <= Len(trace)
    /\ trace[k].ev = "__canInvokeDidMount throws"
    /\ trace[k + 1].ev = "didMount() error:"
    /\ trace[k + 2].ev = "__markMounted"
    /\ trace[k + 3].ev = "executeDidMount returns"
    /\ inst[1]._isMounted


-----------------------------------------------------------------------------
(* C29.  If the promise returned by the afterMount of one node never       *)
(* settles, the traversal waits at that node for ever: no afterMount of a  *)
(* later node is invoked, the attachment of the hung node is not removed   *)
(* and the promise of the traversal does not resolve.  Stated for every    *)
(* state in which the promise has not settled (so for all states of a run  *)
(* in which it never does).                                                *)

\* the promise announced by event j has not settled
Unsettled(j) ==
  /\ trace[j].ev = "pending"
  /\ \A d \in (j + 1)..Len(trace) :
       ~(trace[d].ev \in Settled /\ trace[d].node = trace[j].node)

C29_HungPromiseBlocksTraversal ==
  \A t \in DOMAIN travs : \A j \in DOMAIN trace :
    Unsettled(j) /\ trace[j].node \in TreeNodes(t) =>
      /\ travs[t].status = "running"
      /\ At(t, "await") /\ TTop(t).node = trace[j].node
      /\ dom[trace[j].node].__atomComponent # 0
      /\ \A k \in (j + 1)..Len(trace) :
           trace[k].ev \notin {"afterMount", "delete"}

\* the traversal waits for the promise of one node while the instance of a
\* later node, whose afterMount is due, is still attached; nothing else is
\* left to run
C29_Witness ==
  /\ Idle /\ timers = <<>>
  /\ \E t \in DOMAIN travs : \E j \in DOMAIN trace :
       /\ Unsettled(j) /\ trace[j].node \in TreeNodes(t)
       /\ \E n \in TreeNodes(t) :
            /\ n # trace[j].node
            /\ PosIn(PreOrder(travs[t].root), n)
                 > PosIn(PreOrder(travs[t].root), trace[j].node)
            /\ dom[n].__atomComponent # 0
            /\ canInvoke(inst[dom[n].__atomComponent], "afterMount")


-----------------------------------------------------------------------------
(* C30.  A ref callback that throws is caught inside applyPropsToElement:  *)
(* the error is logged and nothing propagates to the caller, and every     *)
(* prop that follows the ref in the props object is still applied to the   *)
(* element (attributes set, listeners registered).                         *)

\* the positions of the props that are ref callbacks which throw
ThrowingRefs(props) ==
  {r \in DOMAIN props : IsRef(props[r]) /\ props[r].value.throws}

\* the prop has had its effect on node n
AppliedTo(n, e) ==
  IF e.key = CHILDREN THEN TRUE
  ELSE IF IsRef(e) THEN EventsOn("ref", n) # {}
  ELSE IF IsListener(e) THEN Registered(n, eventName(e.key), e.value) = 1
  ELSE getAttribute(n, e.key) = {String(e.value)}

C30_RefCallbackErrorCaught ==
  /\ pc # "threw"
  /\ \A i \in AppliedFrames :
       LET n == stack[i].node
           props == stack[i].el.props
       IN \A r \in ThrowingRefs(props) :
            /\ EventsOn("Ref callback error:", n) # {}
            /\ \A q \in (r + 1)..Len(props) : AppliedTo(n, props[q])

\* the input element whose ref callback threw after its id was set: the
\* class attribute and the click handler that follow the ref are in place
\* and the children are being materialized
C30_Witness ==
  \E i \in AppliedFrames :
    LET n == stack[i].node
        props == stack[i].el.props
    IN /\ \E r \in ThrowingRefs(props) :
            /\ r > 1 /\ r + 2 <= Len(props)
            /\ \E q \in (r + 1)..Len(props) : IsListener(props[q])
       /\ EventsOn("Ref callback error:", n) # {}
       /\ getAttribute(n, ID) = {"before"}
       /\ getAttribute(n, CLASS) = {"after"}
       /\ Len(dom[n].listeners) = 1
       /\ dom[n].listeners[1].type = <<"c", "l", "i", "c", "k">>
       /\ stack[i].pc = "children"


-----------------------------------------------------------------------------
(* C31.  A successful setState(partial) replaces the state by the old      *)
(* state with the keys of partial overridden (keys absent from partial     *)
(* keep their values), changes nothing else on the instance (props, phase  *)
(* flags, consumed flags) and calls neither render() nor a lifecycle hook, *)
(* whether the instance is mounting or mounted; setState(a); setState(b)   *)
(* gives the same state as setState of a overridden by b.                  *)

\* the object {...a, ...b}: the keys of a and of b, those of b winning
Overridden(a, b) ==
  [key \in DOMAIN a \cup DOMAIN b |-> IF key \in DOMAIN b THEN b[key] ELSE a[key]]

\* the state with the keys of the partial state overridden
Merged(state, partial) ==
  [key \in DOMAIN state |->
     IF key \in DOMAIN partial THEN partial[key] ELSE state[key]]

-----------------------------------------------------------------------------
(* C32.  The base constructor runs at most once per instance: it records   *)
(* the instance in the process-wide set when it starts, and a second run   *)
(* of the base constructor for an instance of that set throws instead of   *)
(* initializing props, state or flags again.                               *)

-----------------------------------------------------------------------------
(* LifecycleManager.executeMountingLifecycle(component, createDOMNodeFn),  *)
(* called on one constructed component with createDOMNode as the function  *)
(* that makes the DOM: it calls the executors of beforeMount and didMount  *)
(* and the render() method of the component, and has no try block.  The    *)
(* component is an AtomComponent subclass, a plain object with hooks or    *)
(* the test double; a Parent renders a Leaf, which createDOMNode           *)
(* constructs and mounts.                                                  *)

ManagerInit ==
  /\ root \in {Comp("Leaf"), Comp("Parent"), Comp("Mock")}
  /\ pc = "start"
  /\ dom = <<>>
  /\ \E profile \in ExecutorProfiles :
       /\ root.type = "Mock" => profile.guards
       /\ inst = <<ComponentClass(root.type, profile, NoProps)>>
  /\ stack = <<>>
  /\ timers = <<>>
  /\ travs = <<>>
  /\ trace = <<>>
  /\ faults = 0

\* mutant: didMount is run before render() and the DOM creation
lifecycleStepDidMountEarly(at) ==
  CASE at = "entry"              -> "executeBeforeMount"
    [] at = "executeBeforeMount" -> "executeDidMount"
    [] at = "executeDidMount"    -> "render"
    [] at = "render"             -> "return"

\* The statement order of executeMountingLifecycle: which step follows which
lifecycleStep(at) ==
  CASE at = "entry"              -> "executeBeforeMount"
    [] at = "executeBeforeMount" -> "render"
    [] at = "render"             -> "executeDidMount"
    [] at = "executeDidMount"    -> "return"

\* the caller calls LifecycleManager.executeMountingLifecycle(component,
\* createDOMNode)
executeMountingLifecycle ==
  /\ pc = "start"
  /\ stack = <<>>
  /\ pc' = "called"
  /\ stack' = <<[Frame(root) EXCEPT !.fn = "executeMountingLifecycle",
                                    !.pc = lifecycleStep("entry"),
                                    !.inst = 1]>>
  /\ trace' = Log("executeMountingLifecycle", 1, 0)
  /\ UNCHANGED <<root, dom, inst, timers, travs, faults>>

\* executeBeforeMount(component) and executeDidMount(component)
callPhase(hook) ==
  /\ Running("executeMountingLifecycle", ExecutorName[hook])
  /\ LET n == MaxCalls + 1 + SyncCalls
     IN /\ stack' = Append(
              Goto([Top EXCEPT !.pc = lifecycleStep(ExecutorName[hook])]),
              [Frame(Null) EXCEPT
                 !.fn = ExecutorName[hook],
                 !.pc = IF hook = "beforeMount" THEN "enter" ELSE "guard",
                 !.node = n, !.inst = 1])
        /\ trace' = Log(ExecutorName[hook], 1, n)
  /\ UNCHANGED <<root, pc, dom, inst, timers, travs, faults>>

\* const result = component.render(); const domNode = createDOMNodeFn(result)
\* An error thrown by render() leaves executeMountingLifecycle.
callRender ==
  /\ Running("executeMountingLifecycle", "render")
  /\ \E body \in Faulty({"throw"}, {"return", "throw"}) :
       /\ faults' = IF body = "throw" THEN faults + 1 ELSE faults
       /\ trace' = trace \o <<Event("render", 1, 0, inst[1].state)>>
            \o (IF body = "throw"
                THEN <<Event("executeMountingLifecycle throws", 1, 0,
                             EmptyState)>>
                ELSE <<Event("createDOMNodeFn", 1, 0, EmptyState)>>)
       /\ stack' = IF body = "throw" THEN <<>>
                   ELSE Call([Top EXCEPT !.pc = lifecycleStep("render")],
                             RenderOf(inst[1].cls))
  /\ UNCHANGED <<root, pc, dom, inst, timers, travs>>

\* return domNode
lifecycleReturns ==
  /\ Running("executeMountingLifecycle", "return")
  /\ trace' = Log("executeMountingLifecycle returns", 1, Top.ret)
  /\ stack' = <<>>
  /\ UNCHANGED <<root, pc, dom, inst, timers, travs, faults>>

ManagerNext ==
  \/ executeMountingLifecycle
  \/ \E hook \in {"beforeMount", "didMount"} : callPhase(hook)
  \/ callRender
  \/ lifecycleReturns
  \/ enterPhase
  \/ \E hook \in {"beforeMount", "didMount"} : guard(hook)
  \/ \E hook \in {"beforeMount", "didMount"} : mark(hook)
  \/ \E hook \in {"beforeMount", "didMount"} : invoke(hook)
  \/ markMounted
  \/ \E hook \in {"beforeMount", "didMount"} : caught(hook)
  \/ exitPhase
  \/ executorReturns
  \/ executorThrows
  \/ createText
  \/ createIntrinsic
  \/ forChild
  \/ appendCreated
  \/ construct
  \/ executeBeforeMount
  \/ beforeMount
  \/ exitMountPhase
  \/ instanceRender
  \/ executeDidMount
  \/ attach

ManagerSpec == ManagerInit /\ [][ManagerNext]_vars


-----------------------------------------------------------------------------
(* C33.  LifecycleManager.executeMountingLifecycle runs, for one instance, *)
(* the same step sequence as the component branch of createDOMNode, in the *)
(* order executeBeforeMount, render(), DOM creation from the render        *)
(* result, executeDidMount, and returns the created node; an error thrown  *)
(* by any of these steps propagates to its caller and the later steps are  *)
(* not run.                                                                *)

ManagerSteps ==
  <<"executeMountingLifecycle", "executeBeforeMount", "render",
    "createDOMNodeFn", "executeDidMount", "executeMountingLifecycle returns">>

\* the steps executeMountingLifecycle has taken for its component
StepsTaken ==
  SelectSeq(trace, LAMBDA e : e.inst = 1 /\ e.ev \in Range(ManagerSteps))

\* the positions where an error left one of the steps: an executor, the
\* render() of the component, or createDOMNode (the constructor or the
\* render() of a component below)
StepErrors ==
  {k \in DOMAIN trace :
     \/ trace[k].ev \in {"executeBeforeMount throws", "executeDidMount throws"}
     \/ trace[k].ev = "executeMountingLifecycle throws"
          /\ trace[k - 1].ev = "render"
     \/ trace[k].ev = "uncaught"}

\* the events of the hooks and of render() of the component, in the order
\* the component branch of createDOMNode gives them
BranchOrder == <<"beforeMount", "render", "didMount">>

C33_ManagerRunsBranchSteps ==
  LET taken == StepsTaken
      own == SelectSeq(trace, LAMBDA e : e.inst = 1 /\ e.ev \in Range(BranchOrder))
  IN /\ Len(taken) <= Len(ManagerSteps)
     /\ \A k \in DOMAIN taken : taken[k].ev = ManagerSteps[k]
     /\ \A k \in DOMAIN own : \A l \in DOMAIN own :
          k < l => PosIn(BranchOrder, own[k].ev) < PosIn(BranchOrder, own[l].ev)
     \* the node returned is the one made from the render result
     /\ Len(taken) = Len(ManagerSteps) =>
          /\ taken[Len(taken)].node = 1
          /\ dom[1].kind = "element"
          /\ dom[1].name = RenderOf(inst[1].cls).type
          /\ dom[1].parentNode = 0
          /\ StepErrors = {}
     \* an error ends the run at once: nothing follows it
     /\ \A k \in StepErrors :
          /\ stack = <<>>
          /\ \A l \in (k + 1)..Len(trace) :
               l = k + 1 /\ trace[l].ev = "executeMountingLifecycle throws"
          /\ Len(taken) < Len(ManagerSteps)
     /\ \A k \in DOMAIN trace :
          /\ trace[k].ev = "executeBeforeMount throws" => Len(taken) = 2
          /\ trace[k].ev = "executeMountingLifecycle throws" => k = Len(trace)
          /\ trace[k].ev = "uncaught" => Len(taken) = 4 /\ pc = "threw"
     /\ stack = <<>> /\ pc # "start" /\ StepErrors = {}
          => Len(taken) = Len(ManagerSteps)

\* a Parent with all hooks went through the four steps and the node of its
\* section, holding the span of the mounted Leaf, was returned
C33_Witness ==
  /\ stack = <<>>
  /\ Len(StepsTaken) = Len(ManagerSteps)
  /\ inst[1].cls = "Parent"
  /\ \A hook \in {"beforeMount", "didMount"} :
       \E k \in DOMAIN trace : trace[k].ev = hook /\ trace[k].inst = 1
  /\ Len(inst) = 2 /\ inst[2]._isMounted
  /\ dom[1].name = "section" /\ Len(dom[1].childNodes) = 2


-----------------------------------------------------------------------------
(* render called a second time on the same container, before the timer of  *)
(* the first call has fired or while the traversal of the first call waits *)
(* for the promise of an afterMount.                                       *)

\* two components side by side in an element, a component that renders a
\* component, and an array of two components
RerenderRoots ==
  { El("ul", Arr(<<Comp("Item"), Comp("Item")>>)),
    Comp("Holder"),
    Arr(<<Comp("Item"), Comp("Item")>>) }

RerenderInit ==
  /\ root \in RerenderRoots
  /\ pc = "start"
  /\ dom = <<[NewNode("element", "div") EXCEPT !.childNodes = <<2>>],
             [NewNode("text", "old") EXCEPT !.parentNode = Container]>>
  /\ inst = <<>>
  /\ stack = <<>>
  /\ timers = <<>>
  /\ travs = <<>>
  /\ trace = <<>>
  /\ faults = 0

\* the insertions made so far, one by each render call that returned
Inserts == {k \in DOMAIN trace : trace[k].ev = "insert"}

\* the second call render(element, container): container.innerHTML = ''
\* and the call createDOMNode(element)
renderAgain ==
  /\ pc = "returned"
  /\ Idle
  /\ Cardinality(Inserts) = 1
  /\ \A t \in DOMAIN travs : travs[t].status = "running"
  /\ pc' = "rendering"
  /\ dom' = clearContainer(dom)
  /\ stack' = <<[Frame(root) EXCEPT !.fn = "render", !.pc = "appendChild"],
                Frame(root)>>
  /\ UNCHANGED <<root, inst, timers, travs, trace, faults>>

RerenderNext ==
  \/ render
  \/ renderAgain
  \/ renderAppend
  \/ createText
  \/ createFragment
  \/ createIntrinsic
  \/ forChild
  \/ appendCreated
  \/ construct
  \/ executeBeforeMount
  \/ beforeMount
  \/ exitMountPhase
  \/ instanceRender
  \/ executeDidMount
  \/ attach
  \/ timerFires
  \/ \E t \in DOMAIN travs : visitNode(t)
  \/ \E t \in DOMAIN travs : settle(t)
  \/ \E t \in DOMAIN travs : catch(t)
  \/ \E t \in DOMAIN travs : finally(t)
  \/ \E t \in DOMAIN travs : forChildNode(t)

RerenderSpec == RerenderInit /\ [][RerenderNext]_vars


-----------------------------------------------------------------------------
(* C34.  When render is called twice on the same container before the     *)
(* traversal of the first call has run, or while it waits for an           *)
(* asynchronous afterMount, each traversal processes only the nodes that   *)
(* its own render call created: every instance of both trees gets its      *)
(* afterMount invoked exactly once, the hooks of the first tree run        *)
(* although its DOM has been removed from the container, and no            *)
(* attachment of the second tree is touched by the first traversal.        *)

\* the DOM nodes made by the r-th render call: node ids are given in the
\* order of creation, and the node a call inserts is the first it makes
InsertedBy(r) ==
  LET ins == SelectSeq(trace, LAMBDA e : e.ev = "insert")
  IN IF r > Len(ins) THEN {}
     ELSE {n \in DOMAIN dom :
             /\ n >= ins[r].node
             /\ r < Len(ins) => n < ins[r + 1].node}

\* the instances made by the r-th render call
InstancesOf(r) ==
  {i \in DOMAIN inst :
     \E k \in DOMAIN trace :
       /\ trace[k].ev = "attach" /\ trace[k].inst = i
       /\ trace[k].node \in InsertedBy(r)}

BothRendered == Cardinality(Inserts) = 2 /\ pc = "returned"

C34_TraversalsKeepToTheirTrees ==
  BothRendered =>
    \* the t-th traversal started is the one of the t-th render call
    /\ \A t \in DOMAIN travs :
         /\ travs[t].root \in InsertedBy(t)
         /\ \A f \in DOMAIN travs[t].frames :
              travs[t].frames[f].node \in InsertedBy(t)
    \* an attachment of the second tree is only removed by a traversal
    \* that has started on it
    /\ Len(travs) < 2 =>
         \A k \in DOMAIN trace :
           trace[k].ev \in {"afterMount", "delete"}
             => trace[k].node \in InsertedBy(1)
    /\ TraversalsDone /\ Len(travs) = 2 =>
         /\ dom[Container].childNodes # <<>>
         /\ \A n \in Range(dom[Container].childNodes) : n \in InsertedBy(2)
         /\ \A i \in DOMAIN inst :
              "afterMount" \in inst[i].def
                => Cardinality(Idx("afterMount", i)) = 1

\* the part of C34 that does not depend on which instance a node carries:
\* the traversals keep to their own trees and invoke the afterMount of
\* every instance that is still attached when they reach its node
C34_AttachedInstancesInvoked ==
  BothRendered =>
    /\ \A t \in DOMAIN travs :
         \A f \in DOMAIN travs[t].frames :
           travs[t].frames[f].node \in InsertedBy(t)
    /\ TraversalsDone /\ Len(travs) = 2 =>
         \A t \in DOMAIN travs : \A n \in TreeNodes(t) :
           Attached(n) # 0 /\ "afterMount" \in inst[Attached(n)].def
             => Cardinality(Idx("afterMount", Attached(n))) = 1


-----------------------------------------------------------------------------
(* C35.  When the traversal scheduled by render has completed (its promise *)
(* resolved), no DOM node that this render inserted into the container     *)
(* still carries an attachment, for every input shape, an array root       *)
(* (document fragment) and a component whose render() returns an array     *)
(* included.                                                               *)

\* the nodes in the container: its children and all below them
InContainer == Range(PreOrderAll(dom[Container].childNodes))

C35_NoAttachmentLeftInContainer ==
  TraversalsDone => \A n \in InContainer : dom[n].__atomComponent = 0

\* the same for the trees that hold no array: neither the root nor the
\* render() result of a component is one
NoArrayRoots ==
  { El("div", Arr(<<Comp("Parent"), Comp("Leaf")>>)),
    Comp("Wrapper"),
    Comp("Parent"),
    El("p", Arr(<<Text("a"), Obj, Undefined>>)),
    El("div", Arr(<<Comp("Async"), Comp("Leaf")>>)) }

C35_NoAttachmentLeftWithoutArrays ==
  TraversalsDone /\ root \in NoArrayRoots
    => \A n \in InContainer : dom[n].__atomComponent = 0


-----------------------------------------------------------------------------
(* C36.  A setState call made inside afterMount succeeds (merges, does not *)
(* throw) for every component instance mounted by render, whether or not   *)
(* the component defines a didMount hook, because every instance has been  *)
(* marked mounted by the time its afterMount runs.                         *)

\* the afterMount calls that a step makes: the instance of each
AfterMountCalled ==
  {trace'[k].inst : k \in {j \in (Len(trace) + 1)..Len(trace') :
                             trace'[j].ev = "afterMount"}}

C36_SetStateInAfterMountSucceeds ==
  [][\A a \in AfterMountCalled :
       inst'[a].guards =>
         /\ inst'[a]._isMounted
         /\ ~setStateThrows(inst'[a])]_vars

\* the same for the instances whose class defines didMount
C36_SetStateInAfterMountWithDidMount ==
  [][\A a \in AfterMountCalled :
       inst'[a].guards /\ "didMount" \in inst'[a].def =>
         /\ inst'[a]._isMounted
         /\ ~setStateThrows(inst'[a])
         /\ \A partial \in Partials :
              setState(inst'[a], partial).state = Merged(inst'[a].state, partial)]_vars


-----------------------------------------------------------------------------
(* C37.  When the constructor or render() of some component throws in the  *)
(* middle of the tree walk of render, the container has already been       *)
(* cleared and stays empty, no post-insertion traversal is scheduled, and  *)
(* therefore no afterMount is ever invoked for the instances that had      *)
(* already run beforeMount and didMount earlier in the same walk.          *)

\* the instances whose mounting sequence was completed by the walk
MountedByWalk ==
  {i \in DOMAIN inst : Happened("attach", i)}

C37_FailedWalkLeavesContainerEmpty ==
  pc = "threw" =>
    /\ dom[Container].childNodes = <<>>
    /\ \A n \in DOMAIN dom : dom[n].parentNode # Container
    /\ timers = <<>> /\ travs = <<>>
    /\ \A i \in DOMAIN inst : ~Happened("afterMount", i)
    \* the walk is abandoned: no createDOMNode call is left on the stack
    /\ stack = <<>>

\* a Parent and the Leaf inside it ran beforeMount and didMount and were
\* attached, both define afterMount, and then the render() of the Leaf next
\* to the Parent threw
C37_Witness ==
  /\ pc = "threw"
  /\ Len(inst) = 3
  /\ \A i \in {1, 2} :
       /\ i \in MountedByWalk
       /\ Happened("beforeMount", i) /\ Happened("didMount", i)
       /\ "afterMount" \in inst[i].def
       /\ inst[i]._isMounted
  /\ trace[Len(trace)].ev = "uncaught" /\ trace[Len(trace)].inst = 3
  /\ trace[Len(trace) - 1].ev \in {"render", "setState throws"}


-----------------------------------------------------------------------------
(* C38.  In every reachable state of an instance driven by createDOMNode   *)
(* and the traversal: the mounting flag and the mounted flag are never     *)
(* both true; the mounting flag is true only while beforeMount is          *)
(* executing; the mounted flag and the three consumed flags, once true,    *)
(* never become false again; and the mounted flag is true only if the      *)
(* constructor completed.                                                  *)

\* executeBeforeMount(instance i) is between __enterMountPhase and
\* __exitMountPhase: about to call the hook, or about to leave the phase
InBeforeMount(i) ==
  \E f \in DOMAIN stack :
    /\ stack[f].fn = "createDOMNode" /\ stack[f].inst = i
    /\ stack[f].pc \in {"beforeMount", "exitMountPhase"}

OneWayFlags ==
  {"_isMounted", "_beforeMountCalled", "_didMountCalled", "_afterMountCalled"}

FlagsConsistent ==
  \A i \in DOMAIN inst :
    /\ ~(inst[i]._isMounting /\ inst[i]._isMounted)
    /\ inst[i]._isMounting => InBeforeMount(i)
    /\ inst[i]._isMounted => inst[i]._constructorCalled /\ inst[i].thrown = <<>>

\* no instance exists before the first step, so a property of the state
\* after every step is a property of every reachable state
C38_PhaseFlagsInvariant ==
  [][/\ FlagsConsistent'
     /\ \A i \in DOMAIN inst : \A flag \in OneWayFlags :
          inst[i][flag] => inst'[i][flag]]_vars

\* an instance that was mounting during its beforeMount is mounted, with
\* the three hooks consumed
C38_Witness ==
  \E i \in DOMAIN inst :
    /\ \A flag \in OneWayFlags : inst[i][flag]
    /\ ~inst[i]._isMounting
    /\ \A hook \in Hooks : Happened(hook, i)


-----------------------------------------------------------------------------
(* C39.  An intrinsic VNode built by createElement, jsx or jsxs from props *)
(* that contain no key (and, for jsx and jsxs, without a key argument)     *)
(* materializes to an element that carries only the attributes named in    *)
(* those props: no key attribute is set on the element.                    *)

\* the createDOMNode call of the VNode that the call returned, once its
\* element is made and its props are applied
BuiltFrames ==
  {i \in AppliedFrames :
     /\ root.k = "call"
     /\ root.fn \in {"createElement", "jsx", "jsxs"}
     /\ \A j \in 1..(i - 1) : stack[j].fn # "createDOMNode"}

\* the call was given no key, in its props or as its key argument
KeyNotGiven ==
  /\ \A e \in Range(GivenEntries) : e.key # KEY
  /\ root.key.t = "undefined"

C39_NoKeyAttributeWithoutKey ==
  \A i \in BuiltFrames :
    KeyNotGiven =>
      /\ getAttribute(stack[i].node, KEY) = {}
      /\ \A a \in Range(dom[stack[i].node].attributes) :
           \E e \in Range(GivenEntries) : toLowerCase(e.key) = a.name

\* the weaker statement that holds: the attributes of the element are those
\* named in the given props and, at most, key
C39_OnlyGivenAttributesAndKey ==
  \A i \in BuiltFrames :
    KeyNotGiven =>
      \A a \in Range(dom[stack[i].node].attributes) :
        \/ a.name = KEY
        \/ \E e \in Range(GivenEntries) : toLowerCase(e.key) = a.name

====
